---- MODULE Spec2Model ----
(***************************************************************************)
(* A model of the RWX language server (server/src/server.ts): the document *)
(* table, the settings cache, the registry client with its two caches, and *)
(* the protocol handlers, each split at its await points.                  *)
(*                                                                         *)
(* Text is modelled at character level: a line is a sequence of one-       *)
(* character strings, a document text is a sequence of lines (the result   *)
(* of getText().split('\n')).  URIs and file paths are character          *)
(* sequences too.                                                          *)
(***************************************************************************)
EXTENDS Integers, Sequences, FiniteSets, TLC

(***************************************************************************)
(* Option values: JavaScript null / undefined is None, a value x is        *)
(* Some(x).                                                                *)
(***************************************************************************)
None == << >>
Some(x) == << x >>
IsSome(o) == Len(o) = 1
Get(o) == o[1]

Min(a, b) == IF a < b THEN a ELSE b
Max(a, b) == IF a > b THEN a ELSE b

(***************************************************************************)
(* Array.prototype.slice(0, end) as the diagnostics handler uses it: a     *)
(* negative end counts from the end of the array.                          *)
(***************************************************************************)
SliceTo(arr, end) ==
    LET k == IF end < 0 THEN Max(Len(arr) + end, 0) ELSE Min(end, Len(arr))
    IN SubSeq(arr, 1, k)

(***************************************************************************)
(* Strings.  Positions are 0-based, as in the JavaScript source.           *)
(***************************************************************************)
\* String.prototype.substring(a, b): both ends clamped to the string.
Substring(s, a, b) ==
    LET lo == Max(0, Min(Min(a, b), Len(s)))
        hi == Max(0, Min(Max(a, b), Len(s)))
    IN  SubSeq(s, lo + 1, hi)

\* The literal lit occurs in s at position i.
StartsWithAt(s, i, lit) ==
    /\ i >= 0
    /\ i + Len(lit) <= Len(s)
    /\ \A k \in 1..Len(lit) : s[i + k] = lit[k]

\* String.prototype.includes.
Includes(s, lit) == \E i \in 0..Len(s) : StartsWithAt(s, i, lit)

\* String.prototype.indexOf / lastIndexOf: -1 when lit does not occur.
IndexOf(s, lit) ==
    IF Includes(s, lit)
      THEN CHOOSE i \in 0..Len(s) :
             StartsWithAt(s, i, lit) /\ \A j \in 0..(i - 1) : ~StartsWithAt(s, j, lit)
      ELSE -1

LastIndexOf(s, lit) ==
    IF Includes(s, lit)
      THEN CHOOSE i \in 0..Len(s) :
             StartsWithAt(s, i, lit) /\ \A j \in (i + 1)..Len(s) : ~StartsWithAt(s, j, lit)
      ELSE -1

\* The regular-expression class \s, on the characters the model draws.
IsSpace(c) == c = " "

\* The position after the longest run of \s (resp. of [^\s]) starting at i.
RECURSIVE SkipSpaces(_, _)
SkipSpaces(s, i) ==
    IF i < Len(s) /\ IsSpace(s[i + 1]) THEN SkipSpaces(s, i + 1) ELSE i

RECURSIVE SkipNonSpaces(_, _)
SkipNonSpaces(s, i) ==
    IF i < Len(s) /\ ~IsSpace(s[i + 1]) THEN SkipNonSpaces(s, i + 1) ELSE i

\* String.prototype.trim() === ''.
IsBlank(s) == \A k \in 1..Len(s) : IsSpace(s[k])

(***************************************************************************)
(* Paths (Node's path module, POSIX flavour) and the scope predicate.      *)
(***************************************************************************)
FileScheme == << "f", "i", "l", "e", ":", "/", "/" >>
Sep == "/"
DotMint == << ".", "m", "i", "n", "t" >>
DotRwx == << ".", "r", "w", "x" >>
Dot == << "." >>
DotDot == << ".", "." >>

\* String.prototype.replace('file://', ''): drops the first occurrence.
StripFileScheme(uri) ==
    LET i == IndexOf(uri, FileScheme)
    IN  IF i = -1 THEN uri
        ELSE SubSeq(uri, 1, i) \o SubSeq(uri, i + Len(FileScheme) + 1, Len(uri))

\* String.prototype.split(path.sep): the segments between separators; the
\* empty string gives one empty segment.
RECURSIVE SplitSep(_)
SplitSep(s) ==
    IF s = << >> THEN << << >> >>
    ELSE LET rest == SplitSep(Tail(s))
         IN  IF Head(s) = Sep THEN << << >> >> \o rest
             ELSE << << Head(s) >> \o Head(rest) >> \o Tail(rest)

\* Array.prototype.join('/').
RECURSIVE JoinSep(_)
JoinSep(segs) ==
    IF segs = << >> THEN << >>
    ELSE IF Len(segs) = 1 THEN segs[1]
    ELSE segs[1] \o << Sep >> \o JoinSep(Tail(segs))

\* Node's normalizeString: "." and empty segments are dropped, ".." removes
\* the segment before it (or is kept when the path may rise above its start).
RECURSIVE NormalizeSegments(_, _, _)
NormalizeSegments(segs, res, allowAboveRoot) ==
    IF segs = << >> THEN res
    ELSE LET s == Head(segs) IN
         IF s = << >> \/ s = Dot THEN NormalizeSegments(Tail(segs), res, allowAboveRoot)
         ELSE IF s = DotDot THEN
              IF res # << >> /\ res[Len(res)] # DotDot
                THEN NormalizeSegments(Tail(segs), SubSeq(res, 1, Len(res) - 1), allowAboveRoot)
              ELSE IF allowAboveRoot
                THEN NormalizeSegments(Tail(segs), Append(res, DotDot), allowAboveRoot)
              ELSE NormalizeSegments(Tail(segs), res, allowAboveRoot)
         ELSE NormalizeSegments(Tail(segs), Append(res, s), allowAboveRoot)

\* path.normalize.
PathNormalize(p) ==
    IF p = << >> THEN Dot
    ELSE LET isAbsolute == Head(p) = Sep
             trailingSeparator == p[Len(p)] = Sep
             joined == JoinSep(NormalizeSegments(SplitSep(p), << >>, ~isAbsolute))
         IN  IF joined = << >>
               THEN (IF isAbsolute THEN << Sep >>
                     ELSE IF trailingSeparator THEN << ".", Sep >> ELSE Dot)
             ELSE (IF isAbsolute THEN << Sep >> ELSE << >>)
                  \o joined
                  \o (IF trailingSeparator THEN << Sep >> ELSE << >>)

\* path.join(a, b): the two joined by a separator, then normalized.
PathJoin(a, b) ==
    IF a = << >> THEN PathNormalize(b)
    ELSE IF b = << >> THEN PathNormalize(a)
    ELSE PathNormalize(a \o << Sep >> \o b)

\* isRwxRunFile without the path.normalize call.
isRwxRunFile_noNormalize(uri) ==
    LET pathParts == SplitSep(StripFileScheme(uri))
    IN  \E i \in 1..Len(pathParts) : pathParts[i] = DotMint \/ pathParts[i] = DotRwx

isRwxRunFile(uri) ==
    LET filePath == StripFileScheme(uri)
        normalizedPath == PathNormalize(filePath)
        pathParts == SplitSep(normalizedPath)
    IN  \E i \in 1..Len(pathParts) : pathParts[i] = DotMint \/ pathParts[i] = DotRwx

\* path.dirname: the path up to the last separator that follows a name;
\* trailing separators are ignored.
RECURSIVE DirnameEnd(_, _, _)
DirnameEnd(p, i, matchedSlash) ==
    IF i < 1 THEN -1
    ELSE IF p[i + 1] = Sep
      THEN (IF ~matchedSlash THEN i ELSE DirnameEnd(p, i - 1, matchedSlash))
    ELSE DirnameEnd(p, i - 1, FALSE)

PathDirname(p) ==
    IF p = << >> THEN Dot
    ELSE LET hasRoot == p[1] = Sep
             end == DirnameEnd(p, Len(p) - 1, TRUE)
         IN  IF end = -1 THEN (IF hasRoot THEN << Sep >> ELSE Dot)
             ELSE IF hasRoot /\ end = 1 THEN << Sep, Sep >>
             ELSE SubSeq(p, 1, end)

\* path.basename: the last name of the path.
RECURSIVE BasenameEnd(_, _)
BasenameEnd(p, i) ==
    IF i < 0 THEN -1 ELSE IF p[i + 1] # Sep THEN i + 1 ELSE BasenameEnd(p, i - 1)
RECURSIVE BasenameStart(_, _)
BasenameStart(p, i) ==
    IF i < 0 THEN 0 ELSE IF p[i + 1] = Sep THEN i + 1 ELSE BasenameStart(p, i - 1)

PathBasename(p) ==
    LET end == BasenameEnd(p, Len(p) - 1)
    IN  IF end = -1 THEN << >>
        ELSE SubSeq(p, BasenameStart(p, end - 1) + 1, end)

\* findMintDirectory: the nearest ancestor directory named .mint or .rwx.
RECURSIVE findMintDirectoryFrom(_)
findMintDirectoryFrom(currentDir) ==
    IF currentDir = PathDirname(currentDir) THEN None
    ELSE IF PathBasename(currentDir) = DotMint \/ PathBasename(currentDir) = DotRwx
      THEN Some(currentDir)
    ELSE findMintDirectoryFrom(PathDirname(currentDir))

findMintDirectory(filePath) == findMintDirectoryFrom(PathDirname(filePath))

(***************************************************************************)
(* Call lines and the version-outdated check.                              *)
(***************************************************************************)
CallKey == << "c", "a", "l", "l", ":" >>

\* extractPackageAndVersionFromCallLine: /^\s*call:\s*([^\s]+)\s+([^\s]+)/.
\* Each quantifier is greedy and no shorter choice can match, so the match
\* is found (or not) in one left-to-right pass.
extractPackageAndVersionFromCallLine(line) ==
    LET i0 == SkipSpaces(line, 0)
        i1 == i0 + Len(CallKey)
        i2 == SkipSpaces(line, i1)
        i3 == SkipNonSpaces(line, i2)
        i4 == SkipSpaces(line, i3)
        i5 == SkipNonSpaces(line, i4)
    IN  IF StartsWithAt(line, i0, CallKey) /\ i3 > i2 /\ i4 > i3 /\ i5 > i4
          THEN Some([packageName |-> Substring(line, i2, i3),
                     version |-> Substring(line, i4, i5)])
          ELSE None

\* extractAllCallLines: one entry per line that matches, in line order.
RECURSIVE extractCallLinesFrom(_, _)
extractCallLinesFrom(lines, i) ==
    IF i >= Len(lines) THEN << >>
    ELSE LET line == lines[i + 1]
             packageInfo == IF line = << >> THEN None
                            ELSE extractPackageAndVersionFromCallLine(line)
             versionIndex == IF IsSome(packageInfo)
                               THEN LastIndexOf(line, Get(packageInfo).version) ELSE -1
         IN  (IF IsSome(packageInfo) /\ versionIndex # -1
                THEN << [packageName |-> Get(packageInfo).packageName,
                         version |-> Get(packageInfo).version,
                         line |-> i,
                         versionStart |-> versionIndex,
                         versionEnd |-> versionIndex + Len(Get(packageInfo).version)] >>
                ELSE << >>)
             \o extractCallLinesFrom(lines, i + 1)

extractAllCallLines(text) == extractCallLinesFrom(text, 0)

Position(l, c) == [line |-> l, character |-> c]
Range(s, e) == [start |-> s, end |-> e]

\* The diagnostic checkPackageVersions builds for one outdated call line.
OutdatedDiagnostic(callLine, latestVersion) ==
    [severity |-> "Warning",
     range |-> Range(Position(callLine.line, callLine.versionStart),
                     Position(callLine.line, callLine.versionEnd)),
     message |-> << "Package version ", callLine.version,
                    " is outdated. The newest version is ", latestVersion, "." >>,
     source |-> "mint",
     code |-> Some("outdated-version"),
     data |-> Some([packageName |-> callLine.packageName,
                    currentVersion |-> callLine.version,
                    latestVersion |-> latestVersion,
                    line |-> callLine.line,
                    versionStart |-> callLine.versionStart,
                    versionEnd |-> callLine.versionEnd])]

\* The loop of checkPackageVersions over the call lines, given the catalog
\* (a function from package names to [version, description]).
RECURSIVE versionDiagnosticsFrom(_, _)
versionDiagnosticsFrom(callLines, latestPackages) ==
    IF callLines = << >> THEN << >>
    ELSE LET callLine == Head(callLines)
             known == callLine.packageName \in DOMAIN latestPackages
         IN  (IF known /\ latestPackages[callLine.packageName].version # callLine.version
                THEN << OutdatedDiagnostic(callLine,
                                           latestPackages[callLine.packageName].version) >>
                ELSE << >>)
             \o versionDiagnosticsFrom(Tail(callLines), latestPackages)

\* checkPackageVersions after fetchRWXPackages has answered with `packages`
\* (None when the registry client has nothing to give).
checkPackageVersionsWith(packages, text) ==
    IF ~IsSome(packages) THEN << >>
    ELSE versionDiagnosticsFrom(extractAllCallLines(text), Get(packages))

(***************************************************************************)
(* Cursor contexts: what the completion, hover and definition handlers     *)
(* read off the document.  `lines` is getText().split('\n'); positions are *)
(* [line, character], both 0-based.                                        *)
(***************************************************************************)
UseKey == << "u", "s", "e", ":" >>
WithKey == << "w", "i", "t", "h", ":" >>
KeyKey == << "k", "e", "y", ":" >>
TaskLevelKeys == { << "k", "e", "y" >>, << "c", "a", "l", "l" >>, << "u", "s", "e" >>,
                   << "r", "u", "n" >>, << "w", "i", "t", "h" >> }
MintDirOpen == << "$", "{", "{" >>
MintDirName == << "r", "u", "n", ".", "m", "i", "n", "t", "-", "d", "i", "r" >>
MintDirClose == << "}", "}", "/" >>

LowerLetters == { "a", "b", "c", "d", "e", "f", "g", "h", "i", "j", "k", "l", "m",
                  "n", "o", "p", "q", "r", "s", "t", "u", "v", "w", "x", "y", "z" }
UpperLetters == { "A", "B", "C", "D", "E", "F", "G", "H", "I", "J", "K", "L", "M",
                  "N", "O", "P", "Q", "R", "S", "T", "U", "V", "W", "X", "Y", "Z" }
DigitChars == { "0", "1", "2", "3", "4", "5", "6", "7", "8", "9" }

\* The classes [a-zA-Z0-9] and [a-zA-Z0-9_-].
IsAlphaNum(c) == c \in LowerLetters \cup UpperLetters \cup DigitChars
IsWordChar(c) == IsAlphaNum(c) \/ c = "_" \/ c = "-"
IsQuote(c) == c = "'" \/ c = "\""

\* lines[i] || '': an index past the end and an empty line read the same.
LineOrEmpty(lines, i) == IF i >= 0 /\ i < Len(lines) THEN lines[i + 1] ELSE << >>

\* line.match(/^\s*/)[0].length.
IndentOf(s) == SkipSpaces(s, 0)

\* String.prototype.trim.
RECURSIVE TrimEnd(_)
TrimEnd(s) == IF s # << >> /\ IsSpace(s[Len(s)]) THEN TrimEnd(SubSeq(s, 1, Len(s) - 1)) ELSE s
Trim(s) == TrimEnd(SubSeq(s, SkipSpaces(s, 0) + 1, Len(s)))

\* The start of the run of word characters that ends at i, and the end of
\* the run that starts at i.
RECURSIVE WordRunStart(_, _)
WordRunStart(s, i) == IF i > 0 /\ IsWordChar(s[i]) THEN WordRunStart(s, i - 1) ELSE i
RECURSIVE WordRunEnd(_, _)
WordRunEnd(s, i) == IF i < Len(s) /\ IsWordChar(s[i + 1]) THEN WordRunEnd(s, i + 1) ELSE i

\* The end of the leftmost match of /use:\s*\[/ in line, -1 without a match.
UseArrayStart(line) ==
    LET Matches(i) == /\ StartsWithAt(line, i, UseKey)
                      /\ StartsWithAt(line, SkipSpaces(line, i + Len(UseKey)), << "[" >>)
    IN  IF \E i \in 0..Len(line) : Matches(i)
          THEN LET first == CHOOSE i \in 0..Len(line) :
                               Matches(i) /\ \A j \in 0..(i - 1) : ~Matches(j)
               IN  SkipSpaces(line, first + Len(UseKey)) + 1
          ELSE -1

\* isInUseContext with the simple "use: value" test alone.
isInUseContext_simpleOnly(lines, position) ==
    LET currentLine == LineOrEmpty(lines, position.line)
        beforeCursor == Substring(currentLine, 0, position.character)
    IN  Includes(beforeCursor, UseKey) /\ ~Includes(beforeCursor, << "[" >>)

\* /\s*use:\s*/ holds exactly when "use:" occurs.
isInUseContext(lines, position) ==
    LET currentLine == LineOrEmpty(lines, position.line)
        beforeCursor == Substring(currentLine, 0, position.character)
    IN  \/ Includes(beforeCursor, UseKey) /\ ~Includes(beforeCursor, << "[" >>)
        \/ /\ Includes(beforeCursor, UseKey)
           /\ Includes(beforeCursor, << "[" >>)
           /\ ~Includes(beforeCursor, << "]" >>)
        \/ /\ Includes(currentLine, UseKey)
           /\ Includes(currentLine, << "[" >>)
           /\ ~Includes(currentLine, << "]" >>)
           /\ UseArrayStart(currentLine) # -1
           /\ position.character >= UseArrayStart(currentLine)

\* /\s*call:\s*/ holds exactly when "call:" occurs.
isInCallContext(lines, position) ==
    LET currentLine == LineOrEmpty(lines, position.line)
        beforeCursor == Substring(currentLine, 0, position.character)
    IN  Includes(beforeCursor, CallKey)

\* The end of a match of call:\s*\$\{\{\s*run\.mint-dir\s*\}\}\/ that starts
\* at c, -1 without one.
EmbeddedEndAt(line, c) ==
    LET i1 == SkipSpaces(line, c + Len(CallKey))
        i2 == SkipSpaces(line, i1 + Len(MintDirOpen))
        i3 == SkipSpaces(line, i2 + Len(MintDirName))
    IN  IF /\ StartsWithAt(line, c, CallKey)
           /\ StartsWithAt(line, i1, MintDirOpen)
           /\ StartsWithAt(line, i2, MintDirName)
           /\ StartsWithAt(line, i3, MintDirClose)
          THEN i3 + Len(MintDirClose)
          ELSE -1

\* The leftmost match of /\s*call:\s*\$\{\{\s*run\.mint-dir\s*\}\}\//: its
\* index (the leading \s* included) and its end.
EmbeddedMatch(line) ==
    LET Matches(p) == EmbeddedEndAt(line, SkipSpaces(line, p)) # -1
    IN  IF \E p \in 0..Len(line) : Matches(p)
          THEN LET first == CHOOSE p \in 0..Len(line) :
                               Matches(p) /\ \A q \in 0..(p - 1) : ~Matches(q)
               IN  Some([index |-> first,
                         end |-> EmbeddedEndAt(line, SkipSpaces(line, first))])
          ELSE None

\* An embedded-run test that never holds: the call: rule decides first.
isInEmbeddedRunCallContext_never(lines, position) ==
    [isInContext |-> FALSE, relativePath |-> << >>]

isInEmbeddedRunCallContext(lines, position) ==
    LET currentLine == LineOrEmpty(lines, position.line)
        beforeCursor == Substring(currentLine, 0, position.character)
        match == EmbeddedMatch(beforeCursor)
    IN  IF IsSome(match)
          THEN [isInContext |-> TRUE,
                relativePath |-> Substring(beforeCursor, Get(match).end, Len(beforeCursor))]
          ELSE [isInContext |-> FALSE, relativePath |-> << >>]

\* extractEmbeddedRunFilePath: the pattern above followed by (.+), trimmed.
extractEmbeddedRunFilePath(line) ==
    LET match == EmbeddedMatch(line)
    IN  IF IsSome(match) /\ Get(match).end < Len(line)
          THEN Some(Trim(Substring(line, Get(match).end, Len(line))))
          ELSE None

getEmbeddedRunFilePathAtPosition(lines, position) ==
    LET currentLine == LineOrEmpty(lines, position.line)
        filePath == extractEmbeddedRunFilePath(currentLine)
        match == Get(EmbeddedMatch(currentLine))
        prefixLength == match.end - match.index
        filePathStart == prefixLength
        filePathEnd == prefixLength + (Len(currentLine) - match.end)
    IN  IF currentLine = << >> THEN None
        ELSE IF ~IsSome(filePath) \/ Get(filePath) = << >> THEN None
        ELSE IF position.character >= filePathStart /\ position.character <= filePathEnd
          THEN Some([filePath |-> Get(filePath),
                     range |-> Range(Position(position.line, filePathStart),
                                     Position(position.line, filePathEnd))])
        ELSE None

\* /^\s*with:\s*$/.
IsWithLine(s) ==
    LET i0 == SkipSpaces(s, 0)
    IN  StartsWithAt(s, i0, WithKey) /\ SkipSpaces(s, i0 + Len(WithKey)) = Len(s)

\* /^\s*-?\s*(key|call|use|run|with):\s/.
IsTaskLevelKey(s) ==
    LET i0 == SkipSpaces(s, 0)
        i1 == IF StartsWithAt(s, i0, << "-" >>) THEN i0 + 1 ELSE i0
        i2 == SkipSpaces(s, i1)
    IN  \E k \in TaskLevelKeys : StartsWithAt(s, i2, k \o << ":", " " >>)

\* /^\s*-\s+key:/.
IsNewTaskLine(s) ==
    LET i0 == SkipSpaces(s, 0)
        i1 == SkipSpaces(s, i0 + 1)
    IN  StartsWithAt(s, i0, << "-" >>) /\ i1 > i0 + 1 /\ StartsWithAt(s, i1, KeyKey)

\* The backward loop of isInWithContext from line i.
RECURSIVE WithBlockAbove(_, _, _)
WithBlockAbove(lines, i, currentIndent) ==
    IF i < 0 THEN FALSE
    ELSE LET prevLine == LineOrEmpty(lines, i) IN
         IF IsBlank(prevLine) THEN WithBlockAbove(lines, i - 1, currentIndent)
         ELSE IF IndentOf(prevLine) <= currentIndent
           THEN IF IsWithLine(prevLine) THEN TRUE
                ELSE IF IsTaskLevelKey(prevLine) THEN FALSE
                ELSE WithBlockAbove(lines, i - 1, currentIndent)
         ELSE WithBlockAbove(lines, i - 1, currentIndent)

isInWithContext(lines, position) ==
    LET currentLine == LineOrEmpty(lines, position.line)
        beforeCursor == Substring(currentLine, 0, position.character)
        currentIndent == IndentOf(currentLine)
    IN  \/ IsWithLine(beforeCursor)
        \/ /\ currentIndent > 0 \/ IsBlank(beforeCursor)
           /\ WithBlockAbove(lines, position.line - 1, currentIndent)

\* The backward loop of findCallPackageForWithBlock from line i.
RECURSIVE CallPackageAbove(_, _)
CallPackageAbove(lines, i) ==
    IF i < 0 THEN None
    ELSE LET line == LineOrEmpty(lines, i) IN
         IF IsBlank(line) THEN CallPackageAbove(lines, i - 1)
         ELSE IF IsSome(extractPackageAndVersionFromCallLine(line))
           THEN extractPackageAndVersionFromCallLine(line)
         ELSE IF IsNewTaskLine(line) THEN None
         ELSE CallPackageAbove(lines, i - 1)

findCallPackageForWithBlock(lines, withLineIndex) == CallPackageAbove(lines, withLineIndex - 1)

\* The word under the cursor: the run of [a-zA-Z0-9_-] around it.
getWordRangeAtPosition(lines, position) ==
    LET line == LineOrEmpty(lines, position.line)
        beforeCursor == Substring(line, 0, position.character)
        afterCursor == Substring(line, position.character, Len(line))
        wordStart == IF beforeCursor # << >> /\ IsWordChar(beforeCursor[Len(beforeCursor)])
                       THEN WordRunStart(beforeCursor, Len(beforeCursor))
                       ELSE -1
        wordEnd == WordRunEnd(afterCursor, 0)
        fullWord == Substring(line, wordStart, position.character + wordEnd)
    IN  IF line = << >> \/ wordStart = -1 THEN None
        ELSE IF ~\E k \in 1..Len(fullWord) : IsAlphaNum(fullWord[k]) THEN None
        ELSE Some([word |-> fullWord,
                   range |-> Range(Position(position.line, wordStart),
                                   Position(position.line, position.character + wordEnd))])

\* The pattern of findTaskDefinition,
\* ^\s*(?:-\s+)?key:\s*['"]?<taskKey>['"]?\s*$, for a taskKey of word
\* characters (on which escapeRegExp changes nothing).
KeyLineMatches(line, taskKey) ==
    LET i0 == SkipSpaces(line, 0)
        i1 == IF StartsWithAt(line, i0, << "-" >>) /\ SkipSpaces(line, i0 + 1) > i0 + 1
                THEN SkipSpaces(line, i0 + 1) ELSE i0
        i2 == SkipSpaces(line, i1 + Len(KeyKey))
        i3 == IF i2 < Len(line) /\ IsQuote(line[i2 + 1]) THEN i2 + 1 ELSE i2
        i4 == i3 + Len(taskKey)
        i5 == IF i4 < Len(line) /\ IsQuote(line[i4 + 1]) THEN i4 + 1 ELSE i4
    IN  /\ StartsWithAt(line, i1, KeyKey)
        /\ StartsWithAt(line, i3, taskKey)
        /\ SkipSpaces(line, i5) = Len(line)

RECURSIVE findTaskDefinitionFrom(_, _, _)
findTaskDefinitionFrom(lines, i, taskKey) ==
    IF i >= Len(lines) THEN None
    ELSE IF lines[i + 1] # << >> /\ KeyLineMatches(lines[i + 1], taskKey)
              /\ IndexOf(lines[i + 1], taskKey) # -1
      THEN Some(Position(i, IndexOf(lines[i + 1], taskKey)))
    ELSE findTaskDefinitionFrom(lines, i + 1, taskKey)

findTaskDefinition(lines, taskKey) == findTaskDefinitionFrom(lines, 0, taskKey)

\* extractTaskKeys: the keys of the parsed tasks that are non-empty strings.
RECURSIVE extractTaskKeys(_)
extractTaskKeys(tasks) ==
    IF tasks = << >> THEN << >>
    ELSE (IF Head(tasks) # "" THEN << Head(tasks) >> ELSE << >>)
         \o extractTaskKeys(Tail(tasks))

(***************************************************************************)
(* Parser errors to diagnostics.                                           *)
(***************************************************************************)
\* x ?? d on an optional integer.
OrElse(o, d) == IF IsSome(o) THEN Get(o) ELSE d

\* JavaScript truthiness of an optional number: absent and 0 are falsy.
TruthyNum(o) == IsSome(o) /\ Get(o) # 0

ParseErrorDiagnostic(error) ==
    LET stackEntry == IF Len(error.stackTrace) > 0
                        THEN Some(error.stackTrace[Len(error.stackTrace)]) ELSE None
        startLine == OrElse(error.line, 1) - 1
        startChar == OrElse(error.column, 1) - 1
        endLine == IF IsSome(stackEntry) /\ TruthyNum(Get(stackEntry).endLine)
                     THEN Get(Get(stackEntry).endLine) - 1 ELSE startLine
        endChar == IF IsSome(stackEntry) /\ TruthyNum(Get(stackEntry).endColumn)
                     THEN Get(Get(stackEntry).endColumn) - 1 ELSE startChar + 10
    IN  [severity |-> "Error",
         range |-> Range(Position(startLine, startChar), Position(endLine, endChar)),
         message |-> IF IsSome(error.advice) /\ Get(error.advice) # ""
                       THEN << error.message, "\n\nAdvice: ", Get(error.advice) >>
                       ELSE << error.message >>,
         source |-> "rwx-run-parser",
         code |-> None,
         data |-> None]

RECURSIVE ParseErrorDiagnostics(_)
ParseErrorDiagnostics(errors) ==
    IF errors = << >> THEN << >>
    ELSE << ParseErrorDiagnostic(Head(errors)) >> \o ParseErrorDiagnostics(Tail(errors))

\* The catch block reporting the bare exception text.
CatastrophicDiagnostic_bareMessage(exceptionText) ==
    [severity |-> "Error",
     range |-> Range(Position(0, 0), Position(0, 10)),
     message |-> << exceptionText >>,
     source |-> "rwx-run-parser",
     code |-> None,
     data |-> None]

\* The single diagnostic of the catch block of validateTextDocumentForDiagnostics.
CatastrophicDiagnostic(exceptionText) ==
    [severity |-> "Error",
     range |-> Range(Position(0, 0), Position(0, 10)),
     message |-> << "Parser error: ", exceptionText >>,
     source |-> "rwx-run-parser",
     code |-> None,
     data |-> None]

(***************************************************************************)
(* The data the model draws its inputs from.                               *)
(***************************************************************************)
\* file:///r/.mint/c (in scope) and file:///r/mint/c (out of scope).
UriIn == << "f", "i", "l", "e", ":", "/", "/", "/", "r", "/", ".", "m", "i", "n", "t", "/", "c" >>
UriOut == << "f", "i", "l", "e", ":", "/", "/", "/", "r", "/", "m", "i", "n", "t", "/", "c" >>
Uris == { UriIn, UriOut }

LineCallOld == << "c", "a", "l", "l", ":", " ", "p", " ", "1" >>
LineCallNew == << "c", "a", "l", "l", ":", " ", "p", " ", "2" >>
LineKey == << "-", " ", "k", "e", "y", ":", " ", "a" >>

TextOld == << LineKey, LineCallOld >>
TextNew == << LineKey, LineCallNew >>
TextTwo == << LineCallOld, LineCallOld >>
DiagTexts == { TextOld, TextNew, TextTwo }
\* The out-of-scope document is edited between two texts only.
TextsFor(uri) == IF uri = UriIn THEN DiagTexts ELSE { TextOld, TextNew }

PackageP == << "p" >>
Catalog(v) == (PackageP :> [version |-> v, description |-> "d"])
Catalogs == { Catalog(<< "2" >>), Catalog(<< "3" >>) }

\* What the registry's list endpoint can answer.
PackagesOutcomes ==
    [kind : {"ok"}, data : Catalogs]
    \cup { [kind |-> "non2xx"], [kind |-> "neterror"], [kind |-> "badjson"] }

\* What the parser can answer: a result with errors and tasks, or an exception.
MaxParseErrors == 2
ErrorA == [message |-> "ma", line |-> Some(1), column |-> Some(1),
           advice |-> None, stackTrace |-> << >>]
ErrorB == [message |-> "mb", line |-> Some(2), column |-> Some(3),
           advice |-> Some("adv"),
           stackTrace |-> << [endLine |-> Some(1), endColumn |-> Some(1)],
                             [endLine |-> Some(2), endColumn |-> Some(6)] >>]
\* The parser reports between 0 and MaxParseErrors errors: ErrorA, ErrorB,
\* ErrorA, ...
ParseErrorLists ==
    { [i \in 1..n |-> IF i % 2 = 1 THEN ErrorA ELSE ErrorB] : n \in 0..MaxParseErrors }
TaskLists == { << >>, << "a" >>, << "a", "", "b" >> }
ParseOutcomes ==
    [raised : {FALSE}, errors : ParseErrorLists, tasks : TaskLists]
    \cup { [raised |-> TRUE, message |-> "boom"] }

\* The diagnostics a code-action request can carry: the warnings the
\* version check gives for the model's texts and catalogs, the same warnings
\* under the source name "rwx", one of those without data, and a parser
\* diagnostic.
EmittedWarnings ==
    UNION { { versionDiagnosticsFrom(extractAllCallLines(text), catalog)[i] :
                i \in 1..Len(versionDiagnosticsFrom(extractAllCallLines(text), catalog)) } :
            text \in { TextOld, TextNew }, catalog \in { Catalog(<< "2" >>) } }
ForeignDiagnostics ==
    { [d EXCEPT !.source = "rwx"] : d \in EmittedWarnings }
    \cup { [d EXCEPT !.source = "rwx", !.data = None] : d \in EmittedWarnings }
    \cup { ParseErrorDiagnostic(ErrorA) }
CodeActionContexts ==
    { << >> } \cup { << d >> : d \in EmittedWarnings \cup ForeignDiagnostics }
    \cup { << d, e >> : d \in EmittedWarnings, e \in ForeignDiagnostics }

\* Values of rwxLanguageServer.maxNumberOfProblems a client can configure.
MaxProblemsValues == { -1, 0, 2 }

(***************************************************************************)
(* The file system the embedded-run completions and definitions read, and  *)
(* the documents and registry answers of the provider specifications.      *)
(***************************************************************************)
FileSystem ==
    [dirs |-> { << "/" >>, << "/", "r" >>,
                << "/", "r", "/", ".", "m", "i", "n", "t" >>,
                << "/", "r", "/", ".", "m", "i", "n", "t", "/", "d" >>,
                << "/", "r", "/", ".", "m", "i", "n", "t", "/", ".", "h" >>,
                << "/", "r", "/", "m", "i", "n", "t" >> },
     files |-> { << "/", "r", "/", ".", "m", "i", "n", "t", "/", "c" >>,
                 << "/", "r", "/", ".", "m", "i", "n", "t", "/", "s", ".", "y", "m", "l" >>,
                 << "/", "r", "/", ".", "m", "i", "n", "t", "/", "b", ".", "y", "a", "m", "l" >>,
                 << "/", "r", "/", ".", "m", "i", "n", "t", "/", "n", ".", "t", "x", "t" >>,
                 << "/", "r", "/", ".", "m", "i", "n", "t", "/", "d", "/", "t", ".", "y", "m", "l" >>,
                 << "/", "r", "/", "m", "i", "n", "t", "/", "c" >> }]

LineWith == << " ", " ", "w", "i", "t", "h", ":" >>
LineParam == << " ", " ", " ", " ", "n", ":", " ", "1" >>
LineUse == << " ", " ", "u", "s", "e", ":", " ", "a" >>
LineEmbedded == << "-", " ", "c", "a", "l", "l", ":", " ", "$", "{", "{", " ", "r", "u", "n", ".", "m", "i", "n", "t", "-", "d", "i", "r", " ", "}", "}", "/", "s", ".", "y", "m", "l" >>

TextTaskOld == << LineKey, LineCallOld, LineWith, LineParam, LineUse, LineEmbedded >>
TextTaskNew == << LineKey, LineCallNew, LineWith, LineParam, LineUse, LineEmbedded >>
ProviderTexts == { TextTaskOld, TextTaskNew }

\* Cursor positions: on every line of the provider texts and past the last
\* one, at columns where the contexts of those lines begin or end.
ProviderPositions ==
    { [line |-> 0, character |-> 8], [line |-> 1, character |-> 0],
      [line |-> 1, character |-> 7], [line |-> 2, character |-> 7],
      [line |-> 3, character |-> 4], [line |-> 4, character |-> 7],
      [line |-> 4, character |-> 8], [line |-> 5, character |-> 28],
      [line |-> 5, character |-> 29], [line |-> 6, character |-> 0] }

ParamN == [name |-> << "n" >>, required |-> Some(TRUE), default |-> << >>, description |-> "dn"]
ParamC == [name |-> << "c" >>, required |-> None, default |-> << "t" >>, description |-> "dc"]
ParamB == [name |-> << "b" >>, required |-> Some(FALSE), default |-> << >>, description |-> "db"]

\* What the documentation endpoint can answer for a (name, version) pair.
DetailsPayloads ==
    { [name |-> PackageP, version |-> << "1" >>, description |-> "d",
       source_code_url |-> "s", issue_tracker_url |-> "i",
       parameters |-> Some(<< ParamC, ParamN, ParamB >>)],
      [name |-> PackageP, version |-> << "2" >>, description |-> "d",
       source_code_url |-> "", issue_tracker_url |-> "",
       parameters |-> None] }
DetailsOutcomes ==
    [kind : {"ok"}, data : DetailsPayloads]
    \cup { [kind |-> "non2xx"], [kind |-> "neterror"], [kind |-> "badjson"] }

(***************************************************************************)
(* Completion items and hover contents.  A template string is the tuple of *)
(* its pieces; the parts of a hover are the lines joined by '\n'.          *)
(***************************************************************************)
\* String.prototype.localeCompare on the characters the model's names are
\* made of: punctuation, then digits, then lower-case letters.
CollationOrder ==
    << "_", "-", ".", "0", "1", "2", "3", "4", "5", "6", "7", "8", "9",
       "a", "b", "c", "d", "e", "f", "g", "h", "i", "j", "k", "l", "m",
       "n", "o", "p", "q", "r", "s", "t", "u", "v", "w", "x", "y", "z" >>
CharRank(c) == CHOOSE i \in 1..Len(CollationOrder) : CollationOrder[i] = c

\* a.localeCompare(b) < 0.
RECURSIVE StringLess(_, _)
StringLess(a, b) ==
    IF b = << >> THEN FALSE
    ELSE IF a = << >> THEN TRUE
    ELSE IF Head(a) = Head(b) THEN StringLess(Tail(a), Tail(b))
    ELSE CharRank(Head(a)) < CharRank(Head(b))

StartsWith(s, lit) == StartsWithAt(s, 0, lit)
EndsWith(s, lit) == StartsWithAt(s, Len(s) - Len(lit), lit)

\* A path without its trailing separators (the root stays).
RECURSIVE StripTrailingSep(_)
StripTrailingSep(p) ==
    IF Len(p) > 1 /\ p[Len(p)] = Sep THEN StripTrailingSep(SubSeq(p, 1, Len(p) - 1)) ELSE p

\* fs.existsSync and fs.statSync(p).isDirectory().
FsIsDirectory(p) == StripTrailingSep(p) \in FileSystem.dirs
FsExists(p) == p \in FileSystem.files \/ FsIsDirectory(p)

\* fs.readdirSync(dir, { withFileTypes: true }), as a set of entries.
FsReadDir(dir) ==
    { [name |-> PathBasename(e), isDirectory |-> e \in FileSystem.dirs] :
        e \in { f \in FileSystem.dirs \cup FileSystem.files :
                  f # StripTrailingSep(dir) /\ PathDirname(f) = StripTrailingSep(dir) } }

FileCompletionItem(entry) ==
    IF entry.isDirectory
      THEN [label |-> entry.name, kind |-> "Folder", detail |-> "Directory",
            documentation |-> None,
            data |-> << "dir-", entry.name >>, insertText |-> entry.name \o << "/" >>]
      ELSE [label |-> entry.name, kind |-> "File", detail |-> "RWX run definition file",
            documentation |-> None,
            data |-> << "file-", entry.name >>, insertText |-> entry.name]

\* The comparator of the final sort: folders before files, then by label.
FileItemBefore(a, b) ==
    IF a.kind = "Folder" /\ b.kind = "File" THEN TRUE
    ELSE IF a.kind = "File" /\ b.kind = "Folder" THEN FALSE
    ELSE StringLess(a.label, b.label)

RECURSIVE SortFileItems(_)
SortFileItems(items) ==
    IF items = {} THEN << >>
    ELSE LET first == CHOOSE a \in items : \A b \in items \ {a} : FileItemBefore(a, b)
         IN  << first >> \o SortFileItems(items \ {first})

getFileCompletions(baseDir, relativePath) ==
    LET searchDir == PathJoin(baseDir, relativePath)
    IN  IF ~FsExists(searchDir) \/ ~FsIsDirectory(searchDir) THEN << >>
        ELSE SortFileItems(
               { FileCompletionItem(entry) :
                   entry \in { e \in FsReadDir(searchDir) :
                                 /\ ~StartsWith(e.name, << "." >>)
                                 /\ \/ e.isDirectory
                                    \/ EndsWith(e.name, << ".", "y", "m", "l" >>)
                                    \/ EndsWith(e.name, << ".", "y", "a", "m", "l" >>) } })

TaskItems(taskKeys) ==
    [i \in 1..Len(taskKeys) |->
        [label |-> taskKeys[i], kind |-> "Reference", detail |-> "Task dependency",
         documentation |-> Some(<< "Reference to task \"", taskKeys[i], "\"" >>),
         data |-> << "task-", i - 1 >>, insertText |-> taskKeys[i]]]

\* Object.entries(packages): the keys in the order of the payload.  (The
\* catalogs of the model hold one package.)
RECURSIVE PackageEntries(_)
PackageEntries(names) ==
    IF names = {} THEN << >>
    ELSE LET first == CHOOSE a \in names : \A b \in names \ {a} : StringLess(a, b)
         IN  << first >> \o PackageEntries(names \ {first})

\* The completion items of a `call:` context; nothing when fetchRWXPackages
\* has nothing to give.
PackageItems(packages) ==
    IF ~IsSome(packages) THEN << >>
    ELSE LET names == PackageEntries(DOMAIN Get(packages))
         IN  [i \in 1..Len(names) |->
                [label |-> names[i], kind |-> "Module",
                 detail |-> << "v", Get(packages)[names[i]].version >>,
                 documentation |-> Some(Get(packages)[names[i]].description),
                 data |-> << "package-", i - 1 >>,
                 insertText |-> names[i] \o << " " >> \o Get(packages)[names[i]].version]]

\* JavaScript truthiness of param.required and param.default.
IsRequired(param) == param.required = Some(TRUE)
HasDefault(param) == param.default # << >>

\* The completion items of a `with:` context, the default values left out.
ParameterItems_noDefault(packageDetails) ==
    IF ~IsSome(packageDetails) \/ ~IsSome(Get(packageDetails).parameters) THEN << >>
    ELSE LET parameters == Get(Get(packageDetails).parameters)
         IN  [i \in 1..Len(parameters) |->
                [label |-> parameters[i].name, kind |-> "Property",
                 detail |-> IF IsRequired(parameters[i]) THEN << "required" >>
                            ELSE << >>,
                 documentation |-> Some(parameters[i].description),
                 data |-> << "param-", i - 1 >>,
                 insertText |-> parameters[i].name \o << ":", " " >>]]

\* The completion items of a `with:` context.
ParameterItems(packageDetails) ==
    IF ~IsSome(packageDetails) \/ ~IsSome(Get(packageDetails).parameters) THEN << >>
    ELSE LET parameters == Get(Get(packageDetails).parameters)
         IN  [i \in 1..Len(parameters) |->
                [label |-> parameters[i].name, kind |-> "Property",
                 detail |-> IF IsRequired(parameters[i]) THEN << "required" >>
                            ELSE IF HasDefault(parameters[i])
                              THEN << "default: \"", parameters[i].default, "\"" >>
                            ELSE << >>,
                 documentation |-> Some(parameters[i].description),
                 data |-> << "param-", i - 1 >>,
                 insertText |-> parameters[i].name \o << ":", " " >>]]

\* The comparator of the hover's parameter sort: required first, then by name.
ParamBefore(a, b) ==
    IF IsRequired(a) /\ ~IsRequired(b) THEN TRUE
    ELSE IF ~IsRequired(a) /\ IsRequired(b) THEN FALSE
    ELSE StringLess(a.name, b.name)

\* Array.prototype.sort is stable: each parameter goes before the first
\* one that must follow it.
RECURSIVE InsertParam(_, _)
InsertParam(x, sorted) ==
    IF sorted = << >> THEN << x >>
    ELSE IF ParamBefore(x, Head(sorted)) THEN << x >> \o sorted
    ELSE << Head(sorted) >> \o InsertParam(x, Tail(sorted))

RECURSIVE SortParams(_)
SortParams(params) ==
    IF params = << >> THEN << >>
    ELSE InsertParam(params[Len(params)], SortParams(SubSeq(params, 1, Len(params) - 1)))

\* The grave accent (U+0060), which a string of this module cannot hold.
Backtick == "<U+0060>"

ParamInfoLine(param) ==
    << "- ", Backtick, param.name, Backtick >>
    \o (IF IsRequired(param) THEN << " **(required)**" >>
        ELSE IF HasDefault(param) THEN << " *(default: \"", param.default, "\")*" >>
        ELSE << >>)
    \o << ": ", param.description >>

Markdown(parts) == Some([contents |-> [kind |-> "markdown", value |-> parts]])

\* The hover over a call line.
PackageHover(packageDetails) ==
    IF ~IsSome(packageDetails) THEN None
    ELSE LET d == Get(packageDetails)
             parameters == IF IsSome(d.parameters) THEN Get(d.parameters) ELSE << >>
             sortedParams == SortParams(parameters)
         IN  Markdown(
               << << "**", d.name, "** v", d.version >>, << >>, << d.description >>, << >> >>
               \o (IF d.source_code_url # ""
                     THEN << << "**Source Code:** ", d.source_code_url >> >> ELSE << >>)
               \o (IF d.issue_tracker_url # ""
                     THEN << << >>, << "**Issues:** ", d.issue_tracker_url >> >> ELSE << >>)
               \o (IF Len(parameters) > 0
                     THEN << << >>, << "**Parameters:**" >> >>
                          \o [i \in 1..Len(sortedParams) |-> ParamInfoLine(sortedParams[i])]
                     ELSE << >>))

\* The hover over a parameter name of a with block.
ParameterHover(packageDetails, paramName) ==
    IF ~IsSome(packageDetails) \/ ~IsSome(Get(packageDetails).parameters) THEN None
    ELSE LET parameters == Get(Get(packageDetails).parameters)
             found == { i \in 1..Len(parameters) : parameters[i].name = paramName }
         IN  IF found = {} THEN None
             ELSE LET parameter == parameters[CHOOSE i \in found : \A j \in found : i <= j]
                  IN  Markdown(
                        << << "**", parameter.name, "**" >> >>
                        \o (IF IsRequired(parameter) THEN << << "*Required parameter*" >> >>
                            ELSE IF HasDefault(parameter)
                              THEN << << "*Default: \"", parameter.default, "\"*" >> >>
                            ELSE << >>)
                        \o << << >>, << parameter.description >> >>)

\* /^\s*([a-zA-Z0-9_-]+):/ on a line: the parameter name, if any.
ParamNameOf(line) ==
    LET i0 == SkipSpaces(line, 0)
        i1 == WordRunEnd(line, i0)
    IN  IF i1 > i0 /\ StartsWithAt(line, i1, << ":" >>)
          THEN Some(Substring(line, i0, i1)) ELSE None

(***************************************************************************)
(* Settings.                                                               *)
(***************************************************************************)
DefaultMaxNumberOfProblems == 1000
defaultSettings == [maxNumberOfProblems |-> Some(DefaultMaxNumberOfProblems)]

\* A didChangeConfiguration payload: change.settings with a
\* rwxLanguageServer section (with or without the field), or without one.
ConfigurationChanges ==
    [section : {TRUE}, maxNumberOfProblems : { Some(n) : n \in MaxProblemsValues } \cup { None }]
    \cup { [section |-> FALSE] }

\* The answer to a scoped workspace/configuration request: null, an object
\* (with or without the field), or a failure of the request.
ConfigurationResponses ==
    [kind : {"object"}, maxNumberOfProblems : { Some(n) : n \in MaxProblemsValues } \cup { None }]
    \cup { [kind |-> "null"], [kind |-> "error"] }

\* The .then() of getDocumentSettings: maxNumberOfProblems ?? default.
SettingsFromConfig(config) ==
    [maxNumberOfProblems |->
        IF config.kind = "object" /\ IsSome(config.maxNumberOfProblems)
          THEN config.maxNumberOfProblems
          ELSE defaultSettings.maxNumberOfProblems]

\* The truncation cutting one entry too late.
LimitProblems_offByOne(diagnostics, settings) ==
    IF IsSome(settings.maxNumberOfProblems)
      THEN SliceTo(diagnostics, Get(settings.maxNumberOfProblems) + 1)
      ELSE diagnostics

\* diagnostics.slice(0, settings.maxNumberOfProblems); an undefined end
\* keeps the whole array.
LimitProblems(diagnostics, settings) ==
    IF IsSome(settings.maxNumberOfProblems)
      THEN SliceTo(diagnostics, Get(settings.maxNumberOfProblems))
      ELSE diagnostics

(***************************************************************************)
(* State.                                                                  *)
(***************************************************************************)
CACHE_DURATION == 3600000
MaxRequests == 2
MaxTicks == 2

Slots == 1..MaxRequests

VARIABLES
    documents,                  \* the document table: open URI -> text
    hasConfigurationCapability, \* set by onInitialize
    globalSettings,             \* the process-wide fallback settings
    documentSettings,           \* URI -> its settings promise [id, state, settings]
    packageCache,               \* [data, timestamp]
    packageDetailsCache,        \* "<name>@<version>" -> details
    cacheOrigin,                \* history: when the cached catalog was requested and
                                \* received, the details fetched for each (name, version)
    clock,                      \* Date.now()
    ticks,                      \* number of clock advances so far
    reqs,                       \* the suspended handlers, by slot
    response,                   \* the response the last step sent, if any
    published,                  \* publishDiagnostics notifications sent
    scopeInput, scopeResult,    \* input and output of the scope-predicate check
    useInput, useResult,        \* input and output of the use-context check
    host,                       \* the editor: [serverModule, yamlExtension, activeEditor]
    rwxConfig,                  \* rwx.showYamlExtensionPrompt: [global, workspace]
    client,                     \* the extension's `client` variable
    ext,                        \* the extension: [activated, command, prompt, dump]
    ui                          \* what the extension's last step did in the editor

vars == << documents, hasConfigurationCapability, globalSettings, documentSettings,
           packageCache, packageDetailsCache, cacheOrigin, clock, ticks,
           reqs, response, published, scopeInput, scopeResult,
           useInput, useResult, host, rwxConfig, client, ext, ui >>

configVars == << hasConfigurationCapability, globalSettings, documentSettings >>
registryVars == << packageCache, packageDetailsCache, cacheOrigin >>
timeVars == << clock, ticks >>
scopeVars == << scopeInput, scopeResult >>
useVars == << useInput, useResult >>
clientVars == << host, rwxConfig, client, ext, ui >>
serverVars == << documents, configVars, registryVars, timeVars, reqs, response, published >>

Idle == [pc |-> "idle"]
EmptyMap == [x \in {} |-> TRUE]

HasDoc(r) == "doc" \in DOMAIN r

InitServer ==
    /\ documents = EmptyMap
    /\ hasConfigurationCapability \in BOOLEAN
    /\ globalSettings = defaultSettings
    /\ documentSettings = EmptyMap
    /\ packageCache = [data |-> None, timestamp |-> 0]
    /\ packageDetailsCache = EmptyMap
    /\ cacheOrigin = [issuedAt |-> 0, completedAt |-> 0, payload |-> None,
                      details |-> EmptyMap]
    /\ clock = CACHE_DURATION + CACHE_DURATION
    /\ ticks = 0
    /\ reqs = [s \in Slots |-> Idle]
    /\ response = None
    /\ published = << >>

\* No use-context check pending.
InitUseIdle ==
    /\ useInput = [line |-> << >>, character |-> 0]
    /\ useResult = None

\* What one step of the extension does in the editor: the error
\* notifications shown, the request sent to the server, the companion prompt
\* shown, the extension listing opened, the untitled document opened,
\* whether a promise the step awaited was rejected, an error thrown to the
\* editor.
Quiet ==
    [step |-> "none", errors |-> << >>, request |-> None, prompt |-> FALSE,
     listing |-> FALSE, opened |-> FALSE, rejected |-> FALSE, thrown |-> FALSE]

\* The extension before its first activation in a window with the bundled
\* server and the YAML extension present and no editor open.
NotActivated == [activated |-> FALSE, command |-> FALSE, prompt |-> "none", dump |-> "idle",
                 activations |-> 0]
InitClientIdle ==
    /\ host = [serverModule |-> TRUE, yamlExtension |-> TRUE, activeEditor |-> None]
    /\ rwxConfig = [global |-> None, workspace |-> None]
    /\ client = "undefined"
    /\ ext = NotActivated
    /\ ui = Quiet

\* The servers of the protocol specifications: no scope check pending.
Init ==
    /\ InitServer
    /\ scopeInput = [prefix |-> << >>, segments |-> << >>]
    /\ scopeResult = None
    /\ InitUseIdle
    /\ InitClientIdle

\* A function without the key k.
Without(f, k) == [x \in DOMAIN f \ {k} |-> f[x]]
\* A function with k mapped to v.
With(f, k, v) == [x \in DOMAIN f \cup {k} |-> IF x = k THEN v ELSE f[x]]

(***************************************************************************)
(* Document lifecycle (TextDocuments.listen).  A handler that is suspended *)
(* holds a reference to the TextDocument object: a change updates that     *)
(* object in place, a close detaches it from the table.  The server        *)
(* registers no content listener of its own, so nothing is sent.           *)
(***************************************************************************)
DidOpenTextDocument(uri, text) ==
    /\ uri \notin DOMAIN documents
    /\ documents' = With(documents, uri, text)
    /\ response' = None
    /\ UNCHANGED << configVars, registryVars, timeVars, reqs, published, scopeVars, useVars, clientVars >>

\* A change notification that also pushes diagnostics to the client.
DidChangeTextDocument_pushing(uri, text) ==
    /\ uri \in DOMAIN documents
    /\ documents[uri] # text
    /\ documents' = [documents EXCEPT ![uri] = text]
    /\ reqs' = [s \in Slots |->
                  IF HasDoc(reqs[s]) /\ reqs[s].uri = uri /\ reqs[s].doc.live
                    THEN [reqs[s] EXCEPT !.doc.text = text]
                    ELSE reqs[s]]
    /\ response' = None
    /\ published' = Append(published, [uri |-> uri, diagnostics |-> << >>])
    /\ UNCHANGED << configVars, registryVars, timeVars, scopeVars, useVars, clientVars >>

DidChangeTextDocument(uri, text) ==
    /\ uri \in DOMAIN documents
    /\ documents[uri] # text
    /\ documents' = [documents EXCEPT ![uri] = text]
    /\ reqs' = [s \in Slots |->
                  IF HasDoc(reqs[s]) /\ reqs[s].uri = uri /\ reqs[s].doc.live
                    THEN [reqs[s] EXCEPT !.doc.text = text]
                    ELSE reqs[s]]
    /\ response' = None
    /\ UNCHANGED << configVars, registryVars, timeVars, published, scopeVars, useVars, clientVars >>

\* A close that leaves the settings cache alone.
DidCloseTextDocument_keepSettings(uri) ==
    /\ uri \in DOMAIN documents
    /\ documents' = Without(documents, uri)
    /\ reqs' = [s \in Slots |->
                  IF HasDoc(reqs[s]) /\ reqs[s].uri = uri /\ reqs[s].doc.live
                    THEN [reqs[s] EXCEPT !.doc.live = FALSE]
                    ELSE reqs[s]]
    /\ response' = None
    /\ UNCHANGED << configVars, registryVars, timeVars, published, scopeVars, useVars,
                    clientVars >>

DidCloseTextDocument(uri) ==
    /\ uri \in DOMAIN documents
    /\ documents' = Without(documents, uri)
    /\ documentSettings' = Without(documentSettings, uri)
    /\ reqs' = [s \in Slots |->
                  IF HasDoc(reqs[s]) /\ reqs[s].uri = uri /\ reqs[s].doc.live
                    THEN [reqs[s] EXCEPT !.doc.live = FALSE]
                    ELSE reqs[s]]
    /\ response' = None
    /\ UNCHANGED << hasConfigurationCapability, globalSettings, registryVars,
                    timeVars, published, scopeVars, useVars, clientVars >>

(***************************************************************************)
(* Configuration.                                                          *)
(***************************************************************************)
\* A configuration change that discards only the lookups that have settled.
DidChangeConfiguration_settledOnly(change) ==
    /\ IF hasConfigurationCapability
         THEN /\ documentSettings' =
                   [u \in { v \in DOMAIN documentSettings :
                              documentSettings[v].state = "pending" } |-> documentSettings[u]]
              /\ UNCHANGED globalSettings
         ELSE /\ globalSettings' =
                   IF change.section
                     THEN [maxNumberOfProblems |-> change.maxNumberOfProblems]
                     ELSE defaultSettings
              /\ UNCHANGED documentSettings
    /\ response' = None
    /\ UNCHANGED << documents, hasConfigurationCapability, registryVars,
                    timeVars, reqs, published, scopeVars, useVars, clientVars >>

DidChangeConfiguration(change) ==
    /\ IF hasConfigurationCapability
         THEN /\ documentSettings' = EmptyMap
              /\ UNCHANGED globalSettings
         ELSE /\ globalSettings' =
                   IF change.section
                     THEN [maxNumberOfProblems |-> change.maxNumberOfProblems]
                     ELSE defaultSettings
              /\ UNCHANGED documentSettings
    /\ response' = None
    /\ UNCHANGED << documents, hasConfigurationCapability, registryVars,
                    timeVars, reqs, published, scopeVars, useVars, clientVars >>

\* The settings promises something still refers to: those cached for a
\* document and those a suspended handler awaits.  (A promise nothing refers
\* to any more has no effect when it settles.)
PendingPromises ==
    { documentSettings[u].id : u \in { v \in DOMAIN documentSettings :
                                         documentSettings[v].state = "pending" } }
    \cup { reqs[s].promise : s \in { t \in Slots : reqs[t].pc = "await_settings" } }

\* The identity of the next promise getDocumentSettings creates.
FreshPromise == CHOOSE p \in 1..(Cardinality(PendingPromises) + 1) : p \notin PendingPromises

\* The client answers the scoped configuration request behind promise p;
\* every handler awaiting that promise resumes: it takes the settings (the
\* default when the request failed), reads the document text and calls the
\* parser.
ConfigurationResponse(p, answer) ==
    /\ p \in PendingPromises
    /\ documentSettings' =
         [u \in DOMAIN documentSettings |->
            IF documentSettings[u].id = p /\ documentSettings[u].state = "pending"
              THEN IF answer.kind = "error"
                     THEN [id |-> p, state |-> "rejected", settings |-> defaultSettings]
                     ELSE [id |-> p, state |-> "resolved",
                           settings |-> SettingsFromConfig(answer)]
              ELSE documentSettings[u]]
    /\ reqs' = [s \in Slots |->
                  IF reqs[s].pc = "await_settings" /\ reqs[s].promise = p
                    THEN [kind |-> "diag", pc |-> "await_parse", uri |-> reqs[s].uri,
                          doc |-> reqs[s].doc,
                          settings |-> IF answer.kind = "error" THEN defaultSettings
                                       ELSE SettingsFromConfig(answer),
                          text |-> reqs[s].doc.text]
                    ELSE reqs[s]]
    /\ response' = None
    /\ UNCHANGED << documents, hasConfigurationCapability, globalSettings,
                    registryVars, timeVars, published, scopeVars, useVars, clientVars >>

(***************************************************************************)
(* The registry client: the package list.                                  *)
(***************************************************************************)
\* The freshness test of a client that shares a request in flight: while a
\* call awaits the list endpoint, later calls take the payload at hand.
PackagesFresh_whileFetching(now) ==
    /\ IsSome(packageCache.data)
    /\ \/ now - packageCache.timestamp < CACHE_DURATION
       \/ \E t \in Slots : reqs[t].pc = "await_packages"

\* The freshness test of fetchRWXPackages with <= in place of <.
PackagesFresh_inclusive(now) ==
    IsSome(packageCache.data) /\ now - packageCache.timestamp <= CACHE_DURATION

\* fetchRWXPackages: the cached payload is returned when this holds.
PackagesFresh(now) ==
    IsSome(packageCache.data) /\ now - packageCache.timestamp < CACHE_DURATION

\* The cache update stamped with the time the response arrived.
PackageCacheStore_atArrival(now, data) ==
    [data |-> Some(data), timestamp |-> clock]

\* fetchRWXPackages: the cache update after a good response; `now` is the
\* Date.now() read when the call started.
PackageCacheStore(now, data) ==
    [data |-> Some(data), timestamp |-> now]

\* The failure path dropping the cached payload.
PackageCacheOnFailure_cleared ==
    [data |-> None, timestamp |-> packageCache.timestamp]

\* fetchRWXPackages: the cache after a failed fetch (left as it is).
PackageCacheOnFailure == packageCache

\* What a fetchRWXPackages call knows when it starts: the time it read and
\* whether it answered from the cache.
FetchInfo(hit) == [now |-> clock, hit |-> hit, outcome |-> "none"]

(***************************************************************************)
(* Pull diagnostics: connection.languages.diagnostics.on and               *)
(* validateTextDocumentForDiagnostics.                                     *)
(***************************************************************************)
DiagResponse(uri, result, info) ==
    Some([kind |-> "diag", uri |-> uri, result |-> result, info |-> info])

\* The tail of validateTextDocumentForDiagnostics once fetchRWXPackages has
\* answered: the call lines are read from the document as it is now.
DiagFinish(r, fetch, packages) ==
    LET versionDiagnostics == checkPackageVersionsWith(packages, r.doc.text)
        combined == r.diagnostics \o versionDiagnostics
    IN  DiagResponse(r.uri, LimitProblems(combined, r.settings),
                     [path |-> "validated", settings |-> r.settings,
                      errors |-> r.errors, combined |-> combined,
                      parserDiagnostics |-> r.diagnostics,
                      versionDiagnostics |-> versionDiagnostics,
                      text |-> r.text, textAtEnd |-> r.doc.text,
                      packages |-> packages, fetch |-> fetch])

\* The handler from its start to its first suspension.  In scoped mode
\* getDocumentSettings awaits the cached promise of the document, or creates
\* one (sending a configuration request) when there is none.
DiagnosticsRequest(s, uri) ==
    /\ reqs[s] = Idle
    /\ IF uri \notin DOMAIN documents
         THEN /\ response' = DiagResponse(uri, << >>, [path |-> "unknown"])
              /\ UNCHANGED << reqs, documentSettings >>
       ELSE IF ~isRwxRunFile(uri)
         THEN /\ response' = DiagResponse(uri, << >>, [path |-> "outOfScope"])
              /\ UNCHANGED << reqs, documentSettings >>
       ELSE LET doc == [text |-> documents[uri], live |-> TRUE] IN
            /\ response' = None
            /\ IF ~hasConfigurationCapability
                 THEN /\ reqs' = [reqs EXCEPT ![s] =
                                    [kind |-> "diag", pc |-> "await_parse", uri |-> uri,
                                     doc |-> doc, settings |-> globalSettings,
                                     text |-> doc.text]]
                      /\ UNCHANGED documentSettings
               ELSE IF uri \in DOMAIN documentSettings
                 THEN LET promise == documentSettings[uri] IN
                      /\ reqs' = [reqs EXCEPT ![s] =
                                    IF promise.state = "pending"
                                      THEN [kind |-> "diag", pc |-> "await_settings",
                                            uri |-> uri, doc |-> doc,
                                            promise |-> promise.id]
                                      ELSE [kind |-> "diag", pc |-> "await_parse",
                                            uri |-> uri, doc |-> doc,
                                            settings |-> promise.settings,
                                            text |-> doc.text]]
                      /\ UNCHANGED documentSettings
               ELSE /\ documentSettings' =
                         With(documentSettings, uri,
                              [id |-> FreshPromise, state |-> "pending",
                               settings |-> defaultSettings])
                    /\ reqs' = [reqs EXCEPT ![s] =
                                  [kind |-> "diag", pc |-> "await_settings", uri |-> uri,
                                   doc |-> doc, promise |-> FreshPromise]]
    /\ UNCHANGED << documents, hasConfigurationCapability, globalSettings, registryVars,
                    timeVars, published, scopeVars, useVars, clientVars >>

\* YamlParser.safelyParseRun answers the diagnostics handler: an exception
\* goes to the catch block; otherwise the errors become diagnostics and
\* checkPackageVersions calls fetchRWXPackages, which answers from the cache
\* or suspends on the network.
DiagParserReturns(s, outcome) ==
    /\ reqs[s].pc = "await_parse"
    /\ reqs[s].kind = "diag"
    /\ LET r == reqs[s] IN
       IF outcome.raised
         THEN /\ response' = DiagResponse(r.uri,
                                          << CatastrophicDiagnostic(outcome.message) >>,
                                          [path |-> "catastrophic", settings |-> r.settings,
                                           exceptionText |-> outcome.message])
              /\ reqs' = [reqs EXCEPT ![s] = Idle]
       ELSE LET r2 == [kind |-> "diag", uri |-> r.uri, doc |-> r.doc,
                       settings |-> r.settings, text |-> r.text,
                       errors |-> outcome.errors,
                       diagnostics |-> ParseErrorDiagnostics(outcome.errors)]
            IN  IF PackagesFresh(clock)
                  THEN /\ response' = DiagFinish(r2, FetchInfo(TRUE), packageCache.data)
                       /\ reqs' = [reqs EXCEPT ![s] = Idle]
                  ELSE /\ response' = None
                       /\ reqs' = [reqs EXCEPT ![s] =
                                     r2 @@ [pc |-> "await_packages",
                                            fetch |-> FetchInfo(FALSE)]]
    /\ UNCHANGED << documents, configVars, registryVars, timeVars, published, scopeVars, useVars, clientVars >>

(***************************************************************************)
(* The registry client: package details (fetchPackageDetails).             *)
(***************************************************************************)
\* The cache key without the version.
DetailsCacheKey_nameOnly(packageName, version) == packageName

\* `${packageName}@${version}`.
DetailsCacheKey(packageName, version) == packageName \o << "@" >> \o version

\* packageDetailsCache.has(cacheKey).
DetailsCached(key) == key \in DOMAIN packageDetailsCache

\* packageDetailsCache.set(cacheKey, data) after a good response.
DetailsCacheStore(key, data) == With(packageDetailsCache, key, data)

\* The details cache after a failed fetch (left as it is).
DetailsCacheOnFailure == packageDetailsCache

\* What a fetchPackageDetails call knows when it starts.
DetailsInfo(packageInfo) ==
    LET key == DetailsCacheKey(packageInfo.packageName, packageInfo.version)
    IN  [packageInfo |-> packageInfo, key |-> key, hit |-> DetailsCached(key),
         outcome |-> "none"]

(***************************************************************************)
(* Completion: connection.onCompletion and onCompletionResolve.            *)
(***************************************************************************)
CompletionResponse(uri, result, info) ==
    Some([kind |-> "completion", uri |-> uri, result |-> result, info |-> info])

\* The `call:` branch once fetchRWXPackages has answered.
CompletionPackages(r, fetch, packages) ==
    CompletionResponse(r.uri, PackageItems(packages),
                       [path |-> "call", position |-> r.position,
                        packages |-> packages, fetch |-> fetch])

\* The `with:` branch once fetchPackageDetails has answered.
CompletionDetails(r, details, packageDetails) ==
    CompletionResponse(r.uri, ParameterItems(packageDetails),
                       [path |-> "with", position |-> r.position,
                        packageDetails |-> packageDetails, details |-> details])

\* The handler from its start to its first suspension: the contexts are
\* tried in the order use, embedded run, call, with.
CompletionRequest(s, uri, position) ==
    /\ reqs[s] = Idle
    /\ IF uri \notin DOMAIN documents
         THEN /\ response' = CompletionResponse(uri, << >>, [path |-> "unknown"])
              /\ UNCHANGED reqs
       ELSE IF ~isRwxRunFile(uri)
         THEN /\ response' = CompletionResponse(uri, << >>, [path |-> "outOfScope"])
              /\ UNCHANGED reqs
       ELSE LET lines == documents[uri]
                embeddedRunContext == isInEmbeddedRunCallContext(lines, position)
                mintDir == findMintDirectory(StripFileScheme(uri))
                packageInfo == findCallPackageForWithBlock(lines, position.line)
                r == [kind |-> "completion", uri |-> uri, position |-> position]
            IN  IF isInUseContext(lines, position)
                  THEN /\ response' = None
                       /\ reqs' = [reqs EXCEPT ![s] = r @@ [pc |-> "await_parse", text |-> lines]]
                ELSE IF embeddedRunContext.isInContext
                  THEN /\ response' =
                            CompletionResponse(uri,
                                IF IsSome(mintDir)
                                  THEN getFileCompletions(Get(mintDir),
                                                          embeddedRunContext.relativePath)
                                  ELSE << >>,
                                [path |-> "embedded", position |-> position,
                                 relativePath |-> embeddedRunContext.relativePath])
                       /\ UNCHANGED reqs
                ELSE IF isInCallContext(lines, position)
                  THEN IF PackagesFresh(clock)
                         THEN /\ response' = CompletionPackages(r, FetchInfo(TRUE),
                                                                packageCache.data)
                              /\ UNCHANGED reqs
                         ELSE /\ response' = None
                              /\ reqs' = [reqs EXCEPT ![s] =
                                            r @@ [pc |-> "await_packages",
                                                  fetch |-> FetchInfo(FALSE)]]
                ELSE IF isInWithContext(lines, position)
                  THEN IF ~IsSome(packageInfo)
                         THEN /\ response' = CompletionResponse(uri, << >>,
                                                [path |-> "withNoCall", position |-> position])
                              /\ UNCHANGED reqs
                       ELSE IF DetailsInfo(Get(packageInfo)).hit
                         THEN /\ response' =
                                   CompletionDetails(r, DetailsInfo(Get(packageInfo)),
                                       Some(packageDetailsCache[DetailsInfo(Get(packageInfo)).key]))
                              /\ UNCHANGED reqs
                       ELSE /\ response' = None
                            /\ reqs' = [reqs EXCEPT ![s] =
                                          r @@ [pc |-> "await_details",
                                                details |-> DetailsInfo(Get(packageInfo))]]
                ELSE /\ response' = CompletionResponse(uri, << >>,
                                        [path |-> "none", position |-> position])
                     /\ UNCHANGED reqs
    /\ UNCHANGED << documents, configVars, registryVars, timeVars, published, scopeVars, useVars, clientVars >>

\* The parser answers the `use:` branch: the task keys, or nothing when it
\* raised.
CompletionParserReturns(s, outcome) ==
    /\ reqs[s].pc = "await_parse"
    /\ reqs[s].kind = "completion"
    /\ response' =
         IF outcome.raised
           THEN CompletionResponse(reqs[s].uri, << >>,
                                   [path |-> "useRaised", position |-> reqs[s].position])
           ELSE CompletionResponse(reqs[s].uri, TaskItems(extractTaskKeys(outcome.tasks)),
                                   [path |-> "use", position |-> reqs[s].position,
                                    parser |-> outcome])
    /\ reqs' = [reqs EXCEPT ![s] = Idle]
    /\ UNCHANGED << documents, configVars, registryVars, timeVars, published, scopeVars, useVars, clientVars >>

\* Items a client can send to completionItem/resolve: the two placeholder
\* items (data 1 and 2) and an item with other data.
ResolveItems ==
    [label : {"x"}, data : {1, 2, 7}, detail : {None}, documentation : {None}]

onCompletionResolve(item) ==
    IF item.data = 1
      THEN [item EXCEPT !.detail = Some("Task definition"),
                        !.documentation = Some("Define tasks for your Mint workflow")]
    ELSE IF item.data = 2
      THEN [item EXCEPT !.detail = Some("Trigger definition"),
                        !.documentation = Some("Define triggers for your Mint workflow")]
    ELSE item

CompletionResolveRequest(item) ==
    /\ response' = Some([kind |-> "resolve", uri |-> << >>,
                         result |-> onCompletionResolve(item), info |-> [item |-> item]])
    /\ UNCHANGED << documents, configVars, registryVars, timeVars, reqs, published,
                    scopeVars, useVars, clientVars >>

(***************************************************************************)
(* Hover: connection.onHover.                                              *)
(***************************************************************************)
HoverResponse(uri, result, info) ==
    Some([kind |-> "hover", uri |-> uri, result |-> result, info |-> info])

\* The rest of the handler once fetchPackageDetails has answered.
HoverDetails(r, details, packageDetails) ==
    IF r.branch = "package"
      THEN HoverResponse(r.uri, PackageHover(packageDetails),
                         [path |-> "package", position |-> r.position,
                          packageDetails |-> packageDetails, details |-> details])
      ELSE HoverResponse(r.uri, ParameterHover(packageDetails, r.paramName),
                         [path |-> "parameter", position |-> r.position,
                          paramName |-> r.paramName,
                          packageDetails |-> packageDetails, details |-> details])

\* fetchPackageDetails called by the hover handler r: an answer from the
\* cache, or a suspension on the network.
HoverFetchDetails(s, r, packageInfo) ==
    IF DetailsInfo(packageInfo).hit
      THEN /\ response' = HoverDetails(r, DetailsInfo(packageInfo),
                                       Some(packageDetailsCache[DetailsInfo(packageInfo).key]))
           /\ UNCHANGED reqs
      ELSE /\ response' = None
           /\ reqs' = [reqs EXCEPT ![s] =
                         r @@ [pc |-> "await_details", details |-> DetailsInfo(packageInfo)]]

HoverRequest(s, uri, position) ==
    /\ reqs[s] = Idle
    /\ IF uri \notin DOMAIN documents
         THEN /\ response' = HoverResponse(uri, None, [path |-> "unknown"])
              /\ UNCHANGED reqs
       ELSE IF ~isRwxRunFile(uri)
         THEN /\ response' = HoverResponse(uri, None, [path |-> "outOfScope"])
              /\ UNCHANGED reqs
       ELSE LET lines == documents[uri]
                currentLine == LineOrEmpty(lines, position.line)
                packageInfo == extractPackageAndVersionFromCallLine(currentLine)
                paramMatch == ParamNameOf(currentLine)
                withPackage == findCallPackageForWithBlock(lines, position.line)
                r == [kind |-> "hover", uri |-> uri, position |-> position]
            IN  IF currentLine = << >>
                  THEN /\ response' = HoverResponse(uri, None, [path |-> "noLine"])
                       /\ UNCHANGED reqs
                ELSE IF IsSome(packageInfo)
                  THEN HoverFetchDetails(s, r @@ [branch |-> "package"], Get(packageInfo))
                ELSE IF IsSome(paramMatch)
                  THEN IF ~IsSome(withPackage)
                         THEN /\ response' = HoverResponse(uri, None,
                                                           [path |-> "parameterNoCall"])
                              /\ UNCHANGED reqs
                         ELSE HoverFetchDetails(s, r @@ [branch |-> "parameter",
                                                         paramName |-> Get(paramMatch)],
                                                Get(withPackage))
                ELSE /\ response' = HoverResponse(uri, None, [path |-> "none"])
                     /\ UNCHANGED reqs
    /\ UNCHANGED << documents, configVars, registryVars, timeVars, published, scopeVars, useVars, clientVars >>

(***************************************************************************)
(* Definition: connection.onDefinition (it never suspends).                *)
(***************************************************************************)
OriginRange == Range(Position(0, 0), Position(0, 0))

\* The branch for a cursor on an embedded run file path.
EmbeddedDefinition(uri, embeddedRunInfo) ==
    LET mintDir == findMintDirectory(StripFileScheme(uri))
        targetFilePath == PathJoin(Get(mintDir), embeddedRunInfo.filePath)
    IN  IF ~IsSome(mintDir) THEN None
        ELSE IF ~FsExists(targetFilePath) THEN None
        ELSE Some(<< [originSelectionRange |-> embeddedRunInfo.range,
                      targetUri |-> FileScheme \o targetFilePath,
                      targetRange |-> OriginRange,
                      targetSelectionRange |-> OriginRange] >>)

\* The branch for a cursor on a task name in a `use:` context.
TaskDefinition(uri, lines, position) ==
    LET wordInfo == getWordRangeAtPosition(lines, position)
        definitionPosition == findTaskDefinition(lines, Get(wordInfo).word)
        definitionRange ==
            Range(Get(definitionPosition),
                  Position(Get(definitionPosition).line,
                           Get(definitionPosition).character + Len(Get(wordInfo).word)))
    IN  IF ~isInUseContext(lines, position) THEN None
        ELSE IF ~IsSome(wordInfo) THEN None
        ELSE IF ~IsSome(definitionPosition) THEN None
        ELSE Some(<< [originSelectionRange |-> Get(wordInfo).range,
                      targetUri |-> uri,
                      targetRange |-> definitionRange,
                      targetSelectionRange |-> definitionRange] >>)

\* The definition handler without its scope test.
onDefinition_noScopeTest(uri, position) ==
    IF uri \notin DOMAIN documents THEN None
    ELSE LET embeddedRunInfo == getEmbeddedRunFilePathAtPosition(documents[uri], position)
         IN  IF IsSome(embeddedRunInfo)
               THEN EmbeddedDefinition(uri, Get(embeddedRunInfo))
               ELSE TaskDefinition(uri, documents[uri], position)

onDefinition(uri, position) ==
    IF uri \notin DOMAIN documents \/ ~isRwxRunFile(uri) THEN None
    ELSE LET embeddedRunInfo == getEmbeddedRunFilePathAtPosition(documents[uri], position)
         IN  IF IsSome(embeddedRunInfo)
               THEN EmbeddedDefinition(uri, Get(embeddedRunInfo))
               ELSE TaskDefinition(uri, documents[uri], position)

DefinitionRequest(uri, position) ==
    /\ response' = Some([kind |-> "definition", uri |-> uri,
                         result |-> onDefinition(uri, position),
                         info |-> [position |-> position]])
    /\ UNCHANGED << documents, configVars, registryVars, timeVars, reqs, published,
                    scopeVars, useVars, clientVars >>

(***************************************************************************)
(* The registry answers.                                                   *)
(***************************************************************************)
\* What the caller of fetchRWXPackages does with the answer.
AfterPackages(r, fetch, packages) ==
    IF r.kind = "diag" THEN DiagFinish(r, fetch, packages)
    ELSE CompletionPackages(r, fetch, packages)

\* The list endpoint answers a suspended fetchRWXPackages call; the caller
\* runs to its end.
PackagesResponse(s, outcome) ==
    /\ reqs[s].pc = "await_packages"
    /\ LET r == reqs[s]
           ok == outcome.kind = "ok"
           returned == IF ok THEN Some(outcome.data) ELSE packageCache.data
           fetch == [r.fetch EXCEPT !.outcome = outcome.kind]
       IN  /\ packageCache' = IF ok THEN PackageCacheStore(r.fetch.now, outcome.data)
                              ELSE PackageCacheOnFailure
           /\ cacheOrigin' = IF ok THEN [cacheOrigin EXCEPT !.issuedAt = r.fetch.now,
                                                            !.completedAt = clock,
                                                            !.payload = Some(outcome.data)]
                             ELSE cacheOrigin
           /\ response' = AfterPackages(r, fetch, returned)
           /\ reqs' = [reqs EXCEPT ![s] = Idle]
    /\ UNCHANGED << documents, configVars, packageDetailsCache, timeVars, published,
                    scopeVars, useVars, clientVars >>

\* What the caller of fetchPackageDetails does with the answer.
AfterDetails(r, details, packageDetails) ==
    IF r.kind = "completion" THEN CompletionDetails(r, details, packageDetails)
    ELSE HoverDetails(r, details, packageDetails)

\* The documentation endpoint answers a suspended fetchPackageDetails call;
\* the caller runs to its end.
DetailsResponse(s, outcome) ==
    /\ reqs[s].pc = "await_details"
    /\ LET r == reqs[s]
           ok == outcome.kind = "ok"
           returned == IF ok THEN Some(outcome.data) ELSE None
           details == [r.details EXCEPT !.outcome = outcome.kind]
           pair == << r.details.packageInfo.packageName, r.details.packageInfo.version >>
       IN  /\ packageDetailsCache' = IF ok THEN DetailsCacheStore(r.details.key, outcome.data)
                                     ELSE DetailsCacheOnFailure
           /\ cacheOrigin' = IF ok THEN [cacheOrigin EXCEPT
                                           !.details = With(@, pair, [data |-> outcome.data,
                                                                     fetchedAt |-> clock])]
                             ELSE cacheOrigin
           /\ response' = AfterDetails(r, details, returned)
           /\ reqs' = [reqs EXCEPT ![s] = Idle]
    /\ UNCHANGED << documents, configVars, packageCache, timeVars, published, scopeVars, useVars, clientVars >>

(***************************************************************************)
(* Code actions: connection.onCodeAction.  The handler is synchronous and  *)
(* reads only the request.                                                 *)
(***************************************************************************)
TextEditReplace(range, newText) == [range |-> range, newText |-> newText]

QuickFix(uri, diagnostic) ==
    LET data == Get(diagnostic.data)
    IN  [title |-> << "Update to latest version (", data.latestVersion, ")" >>,
         kind |-> "quickfix",
         diagnostics |-> << diagnostic >>,
         edit |-> [uri |-> uri,
                   edits |-> << TextEditReplace(
                                  Range(Position(data.line, data.versionStart),
                                        Position(data.line, data.versionEnd)),
                                  data.latestVersion) >>]]

\* The filter of onCodeAction accepting the source checkPackageVersions writes.
IsOutdatedVersionDiagnostic_mint(diagnostic) ==
    diagnostic.code = Some("outdated-version") /\ diagnostic.source = "mint"

\* The filter of onCodeAction.
IsOutdatedVersionDiagnostic(diagnostic) ==
    diagnostic.code = Some("outdated-version") /\ diagnostic.source = "rwx"

RECURSIVE CodeActionsFor(_, _)
CodeActionsFor(uri, diagnostics) ==
    IF diagnostics = << >> THEN << >>
    ELSE (IF IsOutdatedVersionDiagnostic(Head(diagnostics)) /\ IsSome(Head(diagnostics).data)
            THEN << QuickFix(uri, Head(diagnostics)) >>
            ELSE << >>)
         \o CodeActionsFor(uri, Tail(diagnostics))

CodeActionRequest(uri, context) ==
    /\ response' = Some([kind |-> "codeAction", uri |-> uri,
                         result |-> CodeActionsFor(uri, context),
                         info |-> [context |-> context]])
    /\ UNCHANGED << documents, configVars, registryVars, timeVars, reqs, published,
                    scopeVars, useVars, clientVars >>

(***************************************************************************)
(* The debug dump: connection.onRequest('rwx/dumpDebugData').              *)
(***************************************************************************)
DumpResponse(uri, result, info) ==
    Some([kind |-> "dump", uri |-> uri, result |-> result, info |-> info])

\* The dump handler without its scope test.
DumpDebugDataRequest_noScopeTest(s, uri) ==
    /\ reqs[s] = Idle
    /\ IF uri \notin DOMAIN documents
         THEN /\ response' = DumpResponse(uri,
                                [error |-> << "Document not found" >>,
                                 requestedUri |-> uri,
                                 availableDocuments |-> DOMAIN documents],
                                [path |-> "unknown", open |-> DOMAIN documents])
              /\ UNCHANGED reqs
       ELSE /\ response' = None
            /\ reqs' = [reqs EXCEPT ![s] =
                          [kind |-> "dump", pc |-> "await_parse", uri |-> uri,
                           doc |-> [text |-> documents[uri], live |-> TRUE],
                           text |-> documents[uri],
                           fileName |-> StripFileScheme(uri)]]
    /\ UNCHANGED << documents, configVars, registryVars, timeVars, published, scopeVars, useVars, clientVars >>

DumpDebugDataRequest(s, uri) ==
    /\ reqs[s] = Idle
    /\ IF uri \notin DOMAIN documents
         THEN /\ response' = DumpResponse(uri,
                                [error |-> << "Document not found" >>,
                                 requestedUri |-> uri,
                                 availableDocuments |-> DOMAIN documents],
                                [path |-> "unknown", open |-> DOMAIN documents])
              /\ UNCHANGED reqs
       ELSE IF ~isRwxRunFile(uri)
         THEN /\ response' = DumpResponse(uri, [error |-> << "Not a Mint workflow file" >>],
                                          [path |-> "outOfScope", open |-> DOMAIN documents])
              /\ UNCHANGED reqs
       ELSE /\ response' = None
            /\ reqs' = [reqs EXCEPT ![s] =
                          [kind |-> "dump", pc |-> "await_parse", uri |-> uri,
                           doc |-> [text |-> documents[uri], live |-> TRUE],
                           text |-> documents[uri],
                           fileName |-> StripFileScheme(uri)]]
    /\ UNCHANGED << documents, configVars, registryVars, timeVars, published, scopeVars, useVars, clientVars >>

DumpParserReturns(s, outcome) ==
    /\ reqs[s].pc = "await_parse"
    /\ reqs[s].kind = "dump"
    /\ response' =
         IF outcome.raised
           THEN DumpResponse(reqs[s].uri,
                             [error |-> << "Failed to parse: ", outcome.message >>],
                             [path |-> "raised", exceptionText |-> outcome.message])
           ELSE DumpResponse(reqs[s].uri,
                             [fileName |-> reqs[s].fileName,
                              isMintFile |-> TRUE,
                              parseResult |-> [partialRunDefinition |-> outcome.tasks,
                                               errors |-> outcome.errors]],
                             [path |-> "parsed", parser |-> outcome])
    /\ reqs' = [reqs EXCEPT ![s] = Idle]
    /\ UNCHANGED << documents, configVars, registryVars, timeVars, published, scopeVars, useVars, clientVars >>

\* Time passes.
Tick(d) ==
    /\ ticks < MaxTicks
    /\ clock' = clock + d
    /\ ticks' = ticks + 1
    /\ response' = None
    /\ UNCHANGED << documents, configVars, registryVars, reqs, published, scopeVars, useVars, clientVars >>

(***************************************************************************)
(* The scope predicate on drawn paths: a URI is a prefix followed by       *)
(* segments joined by the separator.                                       *)
(***************************************************************************)
MaxSegments == 3
ScopeSegments ==
    { DotMint, DotRwx, << "m", "i", "n", "t" >>, << ".", "m", "i", "n", "t", "x" >>,
      DotDot, Dot, << >>, << "c" >> }
ScopePrefixes == { FileScheme \o << Sep >>, << Sep >>, << >> }

RECURSIVE SegmentLists(_)
SegmentLists(n) ==
    IF n = 0 THEN { << >> }
    ELSE { Append(l, g) : l \in SegmentLists(n - 1), g \in ScopeSegments }

ScopeInputs ==
    [prefix : ScopePrefixes,
     segments : UNION { SegmentLists(n) : n \in 1..MaxSegments }]

ScopeUri(input) == input.prefix \o JoinSep(input.segments)

InitScope ==
    /\ InitServer
    /\ scopeInput \in ScopeInputs
    /\ scopeResult = None
    /\ InitUseIdle
    /\ InitClientIdle

\* A request for the document scopeInput names reaches the scope test.
ScopeCheck ==
    /\ scopeResult = None
    /\ scopeResult' = Some(isRwxRunFile(ScopeUri(scopeInput)))
    /\ response' = None
    /\ UNCHANGED << documents, configVars, registryVars, timeVars, reqs, published,
                    scopeInput, useVars, clientVars >>

(***************************************************************************)
(* The extension (the language client).  `client` is the module variable  *)
(* of the extension: undefined until activate creates the LanguageClient.  *)
(* A session runs from activate to deactivate; every session starts with   *)
(* the module freshly loaded.                                              *)
(***************************************************************************)
MaxActivations == 2

\* The file names an active editor can show.
FileMintYml == << "/", "r", "/", ".", "m", "i", "n", "t", "/", "c", ".", "y", "m", "l" >>
FileRwxYaml == << "/", "r", "/", ".", "r", "w", "x", "/", "c", ".", "y", "a", "m", "l" >>
FilePlainYml == << "/", "r", "/", "m", "i", "n", "t", "/", "c", ".", "y", "m", "l" >>
FileMintTxt == << "/", "r", "/", ".", "m", "i", "n", "t", "/", "c", ".", "t", "x", "t" >>
FileMintBak == << "/", "r", "/", ".", "m", "i", "n", "t", "/", "c", ".", "y", "m", "l", ".", "b" >>
FileMintxYml == << "/", "r", "/", ".", "m", "i", "n", "t", "x", "/", "c", ".", "y", "m", "l" >>
FileDotMint == << "/", "r", "/", "c", "/", ".", "m", "i", "n", "t" >>
FileNames ==
    { FileMintYml, FileRwxYaml, FilePlainYml, FileMintTxt, FileMintBak, FileMintxYml,
      FileDotMint }

\* document.fileName.match(/\.(yml|yaml)$/) without the end anchor.
IsYamlFileName_unanchored(fileName) ==
    \/ Includes(fileName, << ".", "y", "m", "l" >>)
    \/ Includes(fileName, << ".", "y", "a", "m", "l" >>)

\* document.fileName.match(/\.(yml|yaml)$/).
IsYamlFileName(fileName) ==
    \/ EndsWith(fileName, << ".", "y", "m", "l" >>)
    \/ EndsWith(fileName, << ".", "y", "a", "m", "l" >>)

\* filePath.includes("/.mint/") || filePath.includes("/.rwx/").
isInMintDir(filePath) ==
    \/ Includes(filePath, << Sep >> \o DotMint \o << Sep >>)
    \/ Includes(filePath, << Sep >> \o DotRwx \o << Sep >>)

\* config.get("showYamlExtensionPrompt", true): the workspace value when
\* there is one, else the user (global) value, else the default.
ConfigGet(config, defaultValue) ==
    IF IsSome(config.workspace) THEN Get(config.workspace)
    ELSE IF IsSome(config.global) THEN Get(config.global)
    ELSE defaultValue

\* config.update writing to the workspace settings.
ConfigUpdateGlobal_workspace(config, value) == [config EXCEPT !.workspace = Some(value)]

\* config.update("showYamlExtensionPrompt", value, true): the third argument
\* selects the user (global) settings.
ConfigUpdateGlobal(config, value) == [config EXCEPT !.global = Some(value)]

\* checkYamlExtensionDependency up to its first await: whether the warning
\* with the three choices is shown.
ShowsYamlPrompt == ~host.yamlExtension /\ ConfigGet(rwxConfig, TRUE)

PromptChoices == { "Install YAML Extension", "Not Now", "Don't Show Again", "dismissed" }

\* activate.  Without out/server.js it shows an error and returns before
\* anything is created; else it starts the dependency check (not awaited),
\* creates the client, registers the command and starts the client.
Activate ==
    /\ ~ext.activated
    /\ ext.activations < MaxActivations
    /\ IF ~host.serverModule
         THEN /\ client' = "undefined"
              /\ ext' = [NotActivated EXCEPT !.activated = TRUE,
                                             !.activations = ext.activations + 1]
              /\ ui' = [Quiet EXCEPT
                          !.step = "activate",
                          !.errors = << << "RWX Language Server not found. Please compile the extension." >> >>]
         ELSE /\ client' = "started"
              /\ ext' = [NotActivated EXCEPT
                           !.activated = TRUE,
                           !.command = TRUE,
                           !.prompt = IF ShowsYamlPrompt THEN "open" ELSE "none",
                           !.activations = ext.activations + 1]
              /\ ui' = [Quiet EXCEPT !.step = "activate", !.prompt = ShowsYamlPrompt]
    /\ UNCHANGED << host, rwxConfig >>

\* The user answers the companion prompt (or dismisses it):
\* checkYamlExtensionDependency resumes after showWarningMessage.
YamlPromptChoice(choice) ==
    /\ ext.prompt = "open"
    /\ ext' = [ext EXCEPT !.prompt = "none"]
    /\ rwxConfig' = IF choice = "Don't Show Again" THEN ConfigUpdateGlobal(rwxConfig, FALSE)
                    ELSE rwxConfig
    /\ ui' = [Quiet EXCEPT !.step = choice,
                           !.listing = (choice = "Install YAML Extension")]
    /\ UNCHANGED << host, client >>

\* deactivate: client.stop() on whatever `client` holds; on undefined the
\* property access throws a TypeError.
Deactivate ==
    /\ ext.activated
    /\ ext' = [NotActivated EXCEPT !.activations = ext.activations]
    /\ IF client = "undefined"
         THEN /\ ui' = [Quiet EXCEPT !.step = "deactivate", !.thrown = TRUE]
              /\ UNCHANGED client
         ELSE /\ ui' = [Quiet EXCEPT !.step = "deactivate"]
              /\ client' = "stopped"
    /\ UNCHANGED << host, rwxConfig >>

\* The user brings another editor (or none) to the front.
ActiveEditorChanges(editor) ==
    /\ host' = [host EXCEPT !.activeEditor = editor]
    /\ ui' = [Quiet EXCEPT !.step = "editor"]
    /\ UNCHANGED << rwxConfig, client, ext >>

\* The rwx.dumpDebugData command up to its first await.
DumpCommand ==
    /\ ext.command
    /\ ext.dump = "idle"
    /\ LET editor == host.activeEditor
           Refuse(message) ==
               /\ ui' = [Quiet EXCEPT !.step = "dump", !.errors = << << message >> >>]
               /\ UNCHANGED ext
       IN  IF ~IsSome(editor) THEN Refuse("No active editor")
           ELSE IF ~IsYamlFileName(Get(editor)) THEN Refuse("Active file is not a YAML file")
           ELSE IF ~isInMintDir(Get(editor))
             THEN Refuse("Active file is not in a .mint or .rwx directory")
           ELSE /\ ui' = [Quiet EXCEPT
                            !.step = "dump",
                            !.request = Some([method |-> "rwx/dumpDebugData",
                                              uri |-> FileScheme \o Get(editor)])]
                /\ ext' = [ext EXCEPT !.dump = "await_request"]
    /\ UNCHANGED << host, rwxConfig, client >>

\* The command resumes after an await: the request, openTextDocument or
\* showTextDocument settles.  A rejection at any of them lands in the catch.
DumpAwaits == << "await_request", "await_open", "await_show", "idle" >>
DumpSettles(ok) ==
    /\ ext.dump # "idle"
    /\ LET at == CHOOSE i \in 1..3 : DumpAwaits[i] = ext.dump
       IN  IF ok
             THEN /\ ext' = [ext EXCEPT !.dump = DumpAwaits[at + 1]]
                  /\ ui' = [Quiet EXCEPT !.step = ext.dump, !.opened = (ext.dump = "await_open")]
             ELSE /\ ext' = [ext EXCEPT !.dump = "idle"]
                  /\ ui' = [Quiet EXCEPT
                              !.step = ext.dump,
                              !.rejected = TRUE,
                              !.errors = << << "Failed to dump debug data: ", "message" >> >>]
    /\ UNCHANGED << host, rwxConfig, client >>

\* The extension in every window: with and without the bundled server and
\* the YAML extension, with every setting of the prompt flag.
FlagValues == { None, Some(TRUE), Some(FALSE) }
InitClient ==
    /\ host \in [serverModule : BOOLEAN, yamlExtension : BOOLEAN, activeEditor : { None }]
    /\ rwxConfig \in [global : FlagValues, workspace : FlagValues]
    /\ client = "undefined"
    /\ ext = NotActivated
    /\ ui = Quiet

(***************************************************************************)
(* The use-context predicate on drawn lines: a line is up to MaxTokens     *)
(* tokens, or one of the lines of the context-detection test scripts; the  *)
(* cursor is anywhere on it or one column past its end.                    *)
(***************************************************************************)
MaxTokens == 4
UseTokens == { UseKey, << " " >>, << "[" >>, << "]" >>, << "a" >>, << "," >> }

RECURSIVE TokenLines(_)
TokenLines(n) ==
    IF n = 0 THEN { << >> }
    ELSE { l \o t : l \in TokenLines(n - 1), t \in UseTokens }

TestScriptLines ==
    { << " ", " ", " ", " ", "u", "s", "e", ":", " " >>,
      << " ", " ", " ", " ", "u", "s", "e", ":", " ", "[", "c", "o", "d", "e", "," >>,
      << " ", " ", " ", " ", "u", "s", "e", ":", " ", "[", "c", "o", "d", "e", ",", " ", "t", "e", "s", "t", "]" >>,
      << " ", " ", " ", " ", "r", "u", "n", ":", " ", "n", "p", "m", " ", "t", "e", "s", "t" >> }

UseLines == TestScriptLines \cup UNION { TokenLines(n) : n \in 1..MaxTokens }
UseInputs ==
    { [line |-> l, character |-> c] : l \in UseLines, c \in 0..(MaxTokens * 4 + 6) }

InitUse ==
    /\ InitServer
    /\ scopeInput = [prefix |-> << >>, segments |-> << >>]
    /\ scopeResult = None
    /\ useInput \in { i \in UseInputs : i.character <= Len(i.line) + 1 }
    /\ useResult = None
    /\ InitClientIdle

\* A completion or definition request reaches the use-context test with the
\* cursor at useInput.
UseCheck ==
    /\ useResult = None
    /\ useResult' = Some(isInUseContext(<< useInput.line >>,
                                        [line |-> 0, character |-> useInput.character]))
    /\ UNCHANGED << serverVars, scopeVars, useInput, clientVars >>

(***************************************************************************)
(* Specifications.                                                         *)
(***************************************************************************)
\* Diagnostics: documents, configuration, one pull request at a time.
NextDiag ==
    \/ \E uri \in Uris : \E text \in TextsFor(uri) : DidOpenTextDocument(uri, text)
    \/ \E uri \in Uris : \E text \in TextsFor(uri) : DidChangeTextDocument(uri, text)
    \/ \E uri \in Uris : DidCloseTextDocument(uri)
    \/ \E change \in ConfigurationChanges : DidChangeConfiguration(change)
    \/ \E p \in PendingPromises, answer \in ConfigurationResponses :
         ConfigurationResponse(p, answer)
    \/ \E uri \in Uris : DiagnosticsRequest(1, uri)
    \/ \E outcome \in ParseOutcomes : DiagParserReturns(1, outcome)
    \/ \E outcome \in PackagesOutcomes : PackagesResponse(1, outcome)

SpecDiag == Init /\ [][NextDiag]_vars

\* The debug dump: documents and one dump request at a time.
NextDump ==
    \/ \E uri \in Uris : \E text \in TextsFor(uri) : DidOpenTextDocument(uri, text)
    \/ \E uri \in Uris : \E text \in TextsFor(uri) : DidChangeTextDocument(uri, text)
    \/ \E uri \in Uris : DidCloseTextDocument(uri)
    \/ \E uri \in Uris : DumpDebugDataRequest(1, uri)
    \/ \E outcome \in ParseOutcomes : DumpParserReturns(1, outcome)

SpecDump == Init /\ [][NextDump]_vars

\* Diagnostics followed by code actions on one in-scope document: the
\* client asks for quick fixes with a diagnostic the server can have given
\* it, or with one of another origin.
NextFix ==
    \/ \E text \in { TextOld, TextNew } : DidOpenTextDocument(UriIn, text)
    \/ \E text \in { TextOld, TextNew } : DidChangeTextDocument(UriIn, text)
    \/ \E p \in PendingPromises : ConfigurationResponse(p, [kind |-> "null"])
    \/ DiagnosticsRequest(1, UriIn)
    \/ \E outcome \in ParseOutcomes : DiagParserReturns(1, outcome)
    \/ \E outcome \in PackagesOutcomes : PackagesResponse(1, outcome)
    \/ \E context \in CodeActionContexts : CodeActionRequest(UriIn, context)

SpecFix == Init /\ [][NextFix]_vars

\* The providers side by side on both documents, one request at a time,
\* with one good and one bad answer from the parser and from each registry
\* endpoint.
ProviderParseOutcomes ==
    { [raised |-> FALSE, errors |-> << ErrorA >>, tasks |-> << "a", "", "b" >>],
      [raised |-> TRUE, message |-> "boom"] }
ProviderPackagesOutcomes ==
    { [kind |-> "ok", data |-> Catalog(<< "2" >>)], [kind |-> "neterror"] }
ProviderDetailsOutcomes ==
    { o \in DetailsOutcomes : o.kind = "non2xx" \/ (o.kind = "ok" /\ o.data.version = << "1" >>) }

NextProviders ==
    \/ \E uri \in Uris : DidOpenTextDocument(uri, TextTaskOld)
    \/ \E uri \in Uris : DidCloseTextDocument(uri)
    \/ \E p \in PendingPromises : ConfigurationResponse(p, [kind |-> "null"])
    \/ \E uri \in Uris : DiagnosticsRequest(1, uri)
    \/ \E outcome \in ProviderParseOutcomes : DiagParserReturns(1, outcome)
    \/ \E uri \in Uris : \E position \in ProviderPositions :
         CompletionRequest(1, uri, position)
    \/ \E outcome \in ProviderParseOutcomes : CompletionParserReturns(1, outcome)
    \/ \E item \in ResolveItems : CompletionResolveRequest(item)
    \/ \E uri \in Uris : \E position \in ProviderPositions : HoverRequest(1, uri, position)
    \/ \E uri \in Uris : \E position \in ProviderPositions : DefinitionRequest(uri, position)
    \/ \E uri \in Uris : \E context \in CodeActionContexts : CodeActionRequest(uri, context)
    \/ \E outcome \in ProviderPackagesOutcomes : PackagesResponse(1, outcome)
    \/ \E outcome \in ProviderDetailsOutcomes : DetailsResponse(1, outcome)

SpecProviders == Init /\ [][NextProviders]_vars

\* The package list: overlapping fetchRWXPackages calls (made by completion
\* requests in a `call:` context) while time passes.
CallPosition == [line |-> 1, character |-> 7]
TickSteps == { 1, CACHE_DURATION - 1 }

NextRegistry ==
    \/ DidOpenTextDocument(UriIn, TextOld)
    \/ \E s \in Slots : CompletionRequest(s, UriIn, CallPosition)
    \/ \E s \in Slots : \E outcome \in PackagesOutcomes : PackagesResponse(s, outcome)
    \/ \E d \in TickSteps : Tick(d)

SpecRegistry == Init /\ [][NextRegistry]_vars

\* The package details: overlapping fetchPackageDetails calls (made by
\* hovers on the call line and by completion requests in a `with:` context)
\* on a document whose call line changes version, while time passes.  The
\* endpoint answers with the documentation of the version asked for, or
\* fails.
DetailsPositions == { [line |-> 1, character |-> 7] }
WithPosition == [line |-> 3, character |-> 4]

NextDetails ==
    \/ \E text \in ProviderTexts : DidOpenTextDocument(UriIn, text)
    \/ \E text \in ProviderTexts : DidChangeTextDocument(UriIn, text)
    \/ \E s \in Slots : \E position \in DetailsPositions : HoverRequest(s, UriIn, position)
    \/ \E s \in Slots : CompletionRequest(s, UriIn, WithPosition)
    \/ \E s \in Slots : \E outcome \in DetailsOutcomes :
         /\ reqs[s].pc = "await_details"
         /\ outcome.kind = "ok" => outcome.data.version = reqs[s].details.packageInfo.version
         /\ DetailsResponse(s, outcome)
    \/ Tick(CACHE_DURATION + 1)

SpecDetails == Init /\ [][NextDetails]_vars

\* The scope predicate on every drawn path.
NextScope == ScopeCheck

SpecScope == InitScope /\ [][NextScope]_vars

\* The extension alone: the server's state stays as constructed.
idleVars == << serverVars, scopeVars, useVars >>
InitExtension ==
    /\ InitServer
    /\ scopeInput = [prefix |-> << >>, segments |-> << >>]
    /\ scopeResult = None
    /\ InitUseIdle
    /\ InitClient

\* Sessions of the extension with the companion prompt.
NextActivation ==
    \/ (Activate /\ UNCHANGED idleVars)
    \/ \E choice \in PromptChoices : YamlPromptChoice(choice) /\ UNCHANGED idleVars
    \/ (Deactivate /\ UNCHANGED idleVars)

SpecActivation == InitExtension /\ [][NextActivation]_vars

\* The dump command in an activated extension.
Editors == { None } \cup { Some(f) : f \in FileNames }
NextCommand ==
    \/ (Activate /\ UNCHANGED idleVars)
    \/ \E editor \in Editors : ActiveEditorChanges(editor) /\ UNCHANGED idleVars
    \/ (DumpCommand /\ UNCHANGED idleVars)
    \/ \E ok \in BOOLEAN : DumpSettles(ok) /\ UNCHANGED idleVars

SpecCommand == InitExtension /\ [][NextCommand]_vars

\* Go-to-definition on one document: task keys (one of them a part of the
\* word "key", one quoted, one defined twice), use: lines, and embedded run
\* calls to a file that exists and to one that does not, indented and as
\* the first key of a list item.
NavText ==
    << << "-", " ", "k", "e", "y", ":", " ", "a" >>,
       << " ", " ", "u", "s", "e", ":", " ", "a" >>,
       << "-", " ", "k", "e", "y", ":", " ", "e" >>,
       << " ", " ", "u", "s", "e", ":", " ", "[", "e", ",", " ", "b", ",", " ", "z", "]" >>,
       << "-", " ", "k", "e", "y", ":", " ", "'", "b", "'" >>,
       << " ", " ", "c", "a", "l", "l", ":", " ", "$", "{", "{", " ", "r", "u", "n", ".", "m", "i", "n", "t", "-", "d", "i", "r", " ", "}", "}", "/", "s", ".", "y", "m", "l" >>,
       << "-", " ", "c", "a", "l", "l", ":", " ", "$", "{", "{", " ", "r", "u", "n", ".", "m", "i", "n", "t", "-", "d", "i", "r", " ", "}", "}", "/", "s", ".", "y", "m", "l" >>,
       << " ", " ", "c", "a", "l", "l", ":", " ", "$", "{", "{", " ", "r", "u", "n", ".", "m", "i", "n", "t", "-", "d", "i", "r", " ", "}", "}", "/", "x", ".", "y", "m", "l" >>,
       << "-", " ", "k", "e", "y", ":", " ", "a" >> >>
NavPositions ==
    { Position(l, c) : l \in 0..(Len(NavText) - 1), c \in 0..34 }

NextNav ==
    \/ DidOpenTextDocument(UriIn, NavText)
    \/ DidCloseTextDocument(UriIn)
    \/ \E position \in NavPositions : DefinitionRequest(UriIn, position)

SpecNav == Init /\ [][NextNav]_vars

\* Both registry endpoints: overlapping calls of fetchRWXPackages (completion
\* in a `call:` context) and of fetchPackageDetails (completion in a `with:`
\* context) on one document, while time passes.
OverlapPackagesOutcomes == { [kind |-> "ok", data |-> Catalog(<< "2" >>)], [kind |-> "neterror"] }

NextOverlap ==
    \/ DidOpenTextDocument(UriIn, TextTaskOld)
    \/ \E s \in Slots : CompletionRequest(s, UriIn, CallPosition)
    \/ \E s \in Slots : CompletionRequest(s, UriIn, WithPosition)
    \/ \E s \in Slots : \E outcome \in OverlapPackagesOutcomes : PackagesResponse(s, outcome)
    \/ \E s \in Slots : \E outcome \in ProviderDetailsOutcomes : DetailsResponse(s, outcome)
    \/ Tick(CACHE_DURATION)

SpecOverlap == Init /\ [][NextOverlap]_vars

\* The settings: diagnostics requests for two documents in scope, opened
\* and closed, while the configuration changes and the client answers the
\* scoped configuration requests; the parser and the list endpoint give one
\* answer each.
UriRwx == << "f", "i", "l", "e", ":", "/", "/", "/", "r", "/", ".", "r", "w", "x", "/", "c" >>
SettingsUris == { UriIn, UriRwx }
SettingsChanges ==
    { [section |-> TRUE, maxNumberOfProblems |-> Some(2)],
      [section |-> TRUE, maxNumberOfProblems |-> None],
      [section |-> FALSE] }
SettingsAnswers ==
    { [kind |-> "object", maxNumberOfProblems |-> Some(2)], [kind |-> "null"],
      [kind |-> "error"] }
SettingsParseOutcome == [raised |-> FALSE, errors |-> << ErrorA >>, tasks |-> << >>]
\* Two handlers at a time.
SettingsSlots == { 1, 2 }

NextSettings ==
    \/ \E uri \in SettingsUris : DidOpenTextDocument(uri, TextOld)
    \/ \E uri \in SettingsUris : DidCloseTextDocument(uri)
    \/ \E change \in SettingsChanges : DidChangeConfiguration(change)
    \/ \E p \in PendingPromises, answer \in SettingsAnswers : ConfigurationResponse(p, answer)
    \/ \E s \in SettingsSlots : \E uri \in SettingsUris : DiagnosticsRequest(s, uri)
    \/ \E s \in SettingsSlots : DiagParserReturns(s, SettingsParseOutcome)
    \/ \E s \in SettingsSlots : PackagesResponse(s, [kind |-> "neterror"])

SpecSettings == Init /\ [][NextSettings]_vars

\* The call of a with block: documents made of up to MaxTaskLines task
\* lines (list items that begin with `key` or with another key, further
\* keys, call lines of two versions) followed by a with block, the cursor
\* on the parameter line of that block.
MaxTaskLines == 4
TaskLineKinds ==
    { << "-", " ", "k", "e", "y", ":", " ", "a" >>,
      << "-", " ", "u", "s", "e", ":", " ", "a" >>,
      << " ", " ", "k", "e", "y", ":", " ", "b" >>,
      << " ", " ", "c", "a", "l", "l", ":", " ", "p", " ", "1" >>,
      << " ", " ", "c", "a", "l", "l", ":", " ", "p", " ", "2" >> }
RECURSIVE TaskLineSeqs(_)
TaskLineSeqs(n) ==
    IF n = 0 THEN { << >> }
    ELSE TaskLineSeqs(n - 1)
         \cup { Append(t, k) : t \in { u \in TaskLineSeqs(n - 1) : Len(u) = n - 1 },
                               k \in TaskLineKinds }
\* Every document begins with a list item.
TaskTexts ==
    { t \o << LineWith, LineParam >> :
        t \in { u \in TaskLineSeqs(MaxTaskLines) : u # << >> /\ u[1][1] = "-" } }
ParamPosition(text) == Position(Len(text) - 1, 4)

NextTask ==
    \/ \E text \in TaskTexts : DidOpenTextDocument(UriIn, text)
    \/ /\ UriIn \in DOMAIN documents
       /\ CompletionRequest(1, UriIn, ParamPosition(documents[UriIn]))
    \/ DetailsResponse(1, [kind |-> "non2xx"])

SpecTask == Init /\ [][NextTask]_vars

\* The version check: diagnostics of documents whose call line is indented,
\* is the first key of a list item, repeats its version in a trailing
\* comment, or names the latest version; the parser finds nothing.
VersionTexts ==
    { << LineKey, << " ", " ", "c", "a", "l", "l", ":", " ", "p", " ", "1" >> >>,
      << << "-", " ", "c", "a", "l", "l", ":", " ", "p", " ", "1" >>, << " ", " ", "k", "e", "y", ":", " ", "a" >> >>,
      << LineKey, << " ", " ", "c", "a", "l", "l", ":", " ", "p", " ", "1", " ", "#", " ", "w", "a", "s", " ", "1" >> >>,
      << LineKey, << " ", " ", "c", "a", "l", "l", ":", " ", "p", " ", "2" >> >>,
      << LineKey, << " ", " ", "c", "a", "l", "l", ":", " ", "p", " ", "1" >>, << "-", " ", "c", "a", "l", "l", ":", " ", "p", " ", "1" >> >> }
VersionParseOutcome == [raised |-> FALSE, errors |-> << >>, tasks |-> << "a" >>]

NextVersion ==
    \/ \E text \in VersionTexts : DidOpenTextDocument(UriIn, text)
    \/ \E text \in VersionTexts : DidChangeTextDocument(UriIn, text)
    \/ \E p \in PendingPromises : ConfigurationResponse(p, [kind |-> "null"])
    \/ DiagnosticsRequest(1, UriIn)
    \/ DiagParserReturns(1, VersionParseOutcome)
    \/ \E outcome \in ProviderPackagesOutcomes : PackagesResponse(1, outcome)

SpecVersion == Init /\ [][NextVersion]_vars

\* Code actions on their own: request contexts of up to MaxDiagnostics
\* diagnostics drawn from two version warnings under the source name "rwx"
\* (the data of the second pointing elsewhere than its range), one without
\* data, one under the source name the version check writes, and a parser
\* diagnostic that carries the source name "rwx" and data.
MaxDiagnostics == 3
WarningRwx == [OutdatedDiagnostic([packageName |-> PackageP, version |-> << "1" >>,
                                   line |-> 1, versionStart |-> 8, versionEnd |-> 9],
                                  << "2" >>) EXCEPT !.source = "rwx"]
WarningMoved ==
    [WarningRwx EXCEPT !.data = Some([Get(WarningRwx.data) EXCEPT
                                        !.line = 3, !.versionStart = 4,
                                        !.versionEnd = 6, !.latestVersion = << "3" >>])]
ActionDiagnostics ==
    { WarningRwx, WarningMoved,
      [WarningRwx EXCEPT !.data = None],
      [WarningRwx EXCEPT !.source = "mint"],
      [ParseErrorDiagnostic(ErrorA) EXCEPT !.source = "rwx", !.data = WarningRwx.data] }
RECURSIVE ActionContexts(_)
ActionContexts(n) ==
    IF n = 0 THEN { << >> }
    ELSE ActionContexts(n - 1)
         \cup { Append(c, d) : c \in { e \in ActionContexts(n - 1) : Len(e) = n - 1 },
                               d \in ActionDiagnostics }

\* Contexts of every length for one document, and the contexts of at most one
\* diagnostic for every document.
NextActions ==
    \E uri \in Uris : \E context \in ActionContexts(MaxDiagnostics) :
        /\ uri = UriIn \/ Len(context) <= 1
        /\ CodeActionRequest(uri, context)

SpecActions == Init /\ [][NextActions]_vars

\* Embedded run calls whose path text stays under the .mint directory, goes
\* down and up again, and rises above it with `..` segments: definition
\* at every column of those lines, completion at every column of the path
\* text.
EscapeText ==
    << << " ", " ", "c", "a", "l", "l", ":", " ", "$", "{", "{", " ", "r", "u", "n", ".", "m", "i", "n", "t", "-", "d", "i", "r", " ", "}", "}", "/", "s", ".", "y", "m", "l" >>,
       << " ", " ", "c", "a", "l", "l", ":", " ", "$", "{", "{", " ", "r", "u", "n", ".", "m", "i", "n", "t", "-", "d", "i", "r", " ", "}", "}", "/", "d", "/", ".", ".", "/", "s", ".", "y", "m", "l" >>,
       << " ", " ", "c", "a", "l", "l", ":", " ", "$", "{", "{", " ", "r", "u", "n", ".", "m", "i", "n", "t", "-", "d", "i", "r", " ", "}", "}", "/", ".", ".", "/", "m", "i", "n", "t", "/", "c" >>,
       << " ", " ", "c", "a", "l", "l", ":", " ", "$", "{", "{", " ", "r", "u", "n", ".", "m", "i", "n", "t", "-", "d", "i", "r", " ", "}", "}", "/", ".", ".", "/" >> >>
EscapePositions ==
    { Position(l, c) : l \in 0..(Len(EscapeText) - 1), c \in 0..38 }
\* The columns after "}}/", where the completion context is the embedded
\* run path.
EscapePathPositions == { position \in EscapePositions : position.character >= 28 }

NextEscape ==
    \/ DidOpenTextDocument(UriIn, EscapeText)
    \/ DidCloseTextDocument(UriIn)
    \/ \E position \in EscapePositions : DefinitionRequest(UriIn, position)
    \/ \E position \in EscapePathPositions : CompletionRequest(1, UriIn, position)

SpecEscape == Init /\ [][NextEscape]_vars

\* The parser's errors with their stack traces: frames that carry both end
\* coordinates, none, or one of the two (both fields are optional), in traces
\* of up to two frames, innermost last.
SpanFrames ==
    { [endLine |-> Some(2), endColumn |-> Some(6)],
      [endLine |-> None, endColumn |-> None],
      [endLine |-> Some(4), endColumn |-> None],
      [endLine |-> None, endColumn |-> Some(7)] }
SpanTraces ==
    { << >> } \cup { << f >> : f \in SpanFrames }
    \cup { << f, g >> : f \in SpanFrames, g \in SpanFrames }
SpanErrors ==
    { [message |-> "ma", line |-> Some(l), column |-> Some(c), advice |-> None,
       stackTrace |-> trace] : l \in { 1, 3 }, c \in { 1, 4 }, trace \in SpanTraces }
SpanParseOutcomes ==
    { [raised |-> FALSE, errors |-> << e >>, tasks |-> << "a" >>] : e \in SpanErrors }

NextSpan ==
    \/ DidOpenTextDocument(UriIn, TextOld)
    \/ \E p \in PendingPromises : ConfigurationResponse(p, [kind |-> "null"])
    \/ DiagnosticsRequest(1, UriIn)
    \/ \E outcome \in SpanParseOutcomes : DiagParserReturns(1, outcome)
    \/ PackagesResponse(1, [kind |-> "neterror"])

SpecSpan == Init /\ [][NextSpan]_vars

\* The use-context predicate on every drawn line and cursor.
NextUse == UseCheck

SpecUse == InitUse /\ [][NextUse]_vars

Next ==
    \/ NextDiag
    \/ NextDump
    \/ NextFix
    \/ NextProviders
    \/ NextRegistry
    \/ NextDetails
    \/ NextScope
    \/ NextActivation
    \/ NextCommand
    \/ NextUse
    \/ NextNav
    \/ NextOverlap
    \/ NextSettings
    \/ NextTask
    \/ NextVersion
    \/ NextActions
    \/ NextEscape
    \/ NextSpan
Spec == (Init \/ InitScope \/ InitExtension \/ InitUse) /\ [][Next]_vars

(***************************************************************************)
(* Properties.                                                             *)
(***************************************************************************)
IsPrefix(p, s) == Len(p) <= Len(s) /\ \A i \in 1..Len(p) : p[i] = s[i]

Responded(kind) == IsSome(response) /\ Get(response).kind = kind
Validated == Responded("diag") /\ Get(response).info.path = "validated"

\* The combined list of a diagnostics response: one Error per parser error,
\* in the order the parser reported them, then the version warnings.
CombinedInOrder(info) ==
    /\ Len(info.combined) >= Len(info.errors)
    /\ \A i \in 1..Len(info.combined) :
         IF i <= Len(info.errors)
           THEN /\ info.combined[i].severity = "Error"
                /\ info.combined[i].source = "rwx-run-parser"
                /\ info.combined[i].message[1] = info.errors[i].message
           ELSE /\ info.combined[i].severity = "Warning"
                /\ info.combined[i].code = Some("outdated-version")

\* C1 as stated: for every integer maxNumberOfProblems the returned
\* diagnostics are a prefix of the combined list and number at most
\* maxNumberOfProblems (a negative limit read as "no entries").
C1_AtMostForEveryInteger ==
    Validated /\ IsSome(Get(response).info.settings.maxNumberOfProblems) =>
        LET r == Get(response)
            n == Get(r.info.settings.maxNumberOfProblems)
        IN  /\ IsPrefix(r.result, r.info.combined)
            /\ Len(r.result) <= Max(n, 0)

\* C1 amended: the returned diagnostics are a prefix of the combined list
\* (parser errors in reported order, then version warnings); for a limit
\* n >= 0 they are its first min(n, length) entries, and for a negative
\* limit -k they are the combined list without its last k entries.
C1_Truncation ==
    Validated /\ IsSome(Get(response).info.settings.maxNumberOfProblems) =>
        LET r == Get(response)
            n == Get(r.info.settings.maxNumberOfProblems)
        IN  /\ CombinedInOrder(r.info)
            /\ IsPrefix(r.result, r.info.combined)
            /\ n >= 0 => Len(r.result) = Min(n, Len(r.info.combined))
            /\ n < 0 => Len(r.result) = Max(Len(r.info.combined) + n, 0)

\* A response that was cut: limit 2, more than two entries in the combined
\* list, parser errors and version warnings both present.
C1_Witness ==
    /\ Validated
    /\ Get(response).info.settings.maxNumberOfProblems = Some(2)
    /\ Len(Get(response).info.combined) > 2
    /\ Len(Get(response).info.errors) > 0
    /\ Len(Get(response).info.versionDiagnostics) > 0

C9_CatastrophicDiagnostic ==
    Responded("diag") /\ Get(response).info.path = "catastrophic" =>
        Get(response).result =
            << [severity |-> "Error",
                range |-> [start |-> [line |-> 0, character |-> 0],
                           end |-> [line |-> 0, character |-> 10]],
                message |-> << "Parser error: ", Get(response).info.exceptionText >>,
                source |-> "rwx-run-parser",
                code |-> None,
                data |-> None] >>

C9_Witness ==
    Responded("diag") /\ Get(response).info.path = "catastrophic"

\* C5: a document line `call: p 1` with the catalog reporting version 2 for
\* p gives a Warning with code outdated-version and source rwx on the
\* version token, and a code-action request carrying a warning the server
\* emits returns one quick fix replacing exactly that token.
C5_OutdatedVersionEndToEnd ==
    /\ ( /\ Validated
         /\ Get(response).info.textAtEnd = TextOld
         /\ Get(response).info.packages = Some(Catalog(<< "2" >>)) )
       => \E i \in 1..Len(Get(response).info.combined) :
            LET d == Get(response).info.combined[i]
            IN  /\ d.severity = "Warning"
                /\ d.code = Some("outdated-version")
                /\ d.source = "rwx"
                /\ d.range = [start |-> [line |-> 1, character |-> 8],
                              end |-> [line |-> 1, character |-> 9]]
    /\ ( /\ Responded("codeAction")
         /\ Len(Get(response).info.context) = 1
         /\ Get(response).info.context[1] \in EmittedWarnings )
       => LET d == Get(response).info.context[1]
          IN  /\ Len(Get(response).result) = 1
              /\ Get(response).result[1].edit.edits =
                   << [range |-> d.range, newText |-> Get(d.data).latestVersion] >>

\* C10: the dump handler answers "Document not found" (with the requested
\* URI and the open URIs) for a URI that is not open, "Not a Mint workflow
\* file" for an open document out of scope, {fileName, isMintFile,
\* parseResult} when the parse returns and "Failed to parse: <message>" when
\* it raises.
C10_DumpPayload ==
    Responded("dump") =>
        LET r == Get(response) IN
        /\ r.info.path \in { "unknown", "outOfScope" } =>
             /\ r.info.path = "unknown" <=> r.uri \notin r.info.open
             /\ r.info.path = "outOfScope" => r.uri = UriOut
        /\ r.info.path = "unknown" =>
             r.result = [error |-> << "Document not found" >>, requestedUri |-> r.uri,
                         availableDocuments |-> r.info.open]
        /\ r.info.path = "outOfScope" =>
             r.result = [error |-> << "Not a Mint workflow file" >>]
        /\ r.info.path = "parsed" =>
             /\ r.uri = UriIn
             /\ r.result = [fileName |-> << "/", "r", "/", ".", "m", "i", "n", "t", "/", "c" >>,
                            isMintFile |-> TRUE,
                            parseResult |-> [partialRunDefinition |-> r.info.parser.tasks,
                                             errors |-> r.info.parser.errors]]
        /\ r.info.path = "raised" =>
             /\ r.uri = UriIn
             /\ r.result = [error |-> << "Failed to parse: ", r.info.exceptionText >>]

C10_Witness ==
    Responded("dump") /\ Get(response).info.path = "raised"

\* The providers the scope test guards, and an empty or absent result (an
\* empty list and null read the same).
ScopedProviders == { "diag", "completion", "hover", "definition" }
OutOfScopeOpen(r) == r.uri = UriOut /\ UriOut \in DOMAIN documents

FixableIn(context) ==
    { i \in 1..Len(context) :
        /\ context[i].code = Some("outdated-version")
        /\ context[i].source = "rwx"
        /\ context[i].data # None }

IsName(seg) == seg # << >> /\ seg # Dot /\ seg # DotDot
DotDotsIn(segs, i, j) == Cardinality({ k \in (i + 1)..j : segs[k] = DotDot })
NamesIn(segs, i, j) == Cardinality({ k \in (i + 1)..j : IsName(segs[k]) })

\* Segment i is a segment of the normalized path: it is a name, and no
\* later ".." removes it (every ".." removes the nearest name left of it
\* that is still there).
SurvivesNormalize(segs, i) ==
    /\ IsName(segs[i])
    /\ \A j \in (i + 1)..Len(segs) : DotDotsIn(segs, i, j) <= NamesIn(segs, i, j)

InScopeBySegments(segs) ==
    \E i \in 1..Len(segs) :
        (segs[i] = DotMint \/ segs[i] = DotRwx) /\ SurvivesNormalize(segs, i)

\* C4: isRwxRunFile holds exactly when, after the file:// prefix is
\* stripped and the path normalized, some segment is exactly .mint or
\* .rwx; /repo/.mint/ci.yml is in scope, /repo/mint/ci.yml and
\* /repo/.mintx/ci.yml are not.  The result is a function of the path alone.
C4_ScopeIffExactSegment ==
    /\ IsSome(scopeResult) =>
         Get(scopeResult) = InScopeBySegments(scopeInput.segments)
    /\ isRwxRunFile(<< "f", "i", "l", "e", ":", "/", "/", "/", "r", "e", "p", "o", "/", ".", "m", "i", "n", "t", "/", "c", "i", ".", "y", "m", "l" >>)
    /\ ~isRwxRunFile(<< "f", "i", "l", "e", ":", "/", "/", "/", "r", "e", "p", "o", "/", "m", "i", "n", "t", "/", "c", "i", ".", "y", "m", "l" >>)
    /\ ~isRwxRunFile(<< "f", "i", "l", "e", ":", "/", "/", "/", "r", "e", "p", "o", "/", ".", "m", "i", "n", "t", "x", "/", "c", "i", ".", "y", "m", "l" >>)

\* A path with a .mint segment that normalization removes: out of scope.
C4_Witness ==
    /\ scopeResult = Some(FALSE)
    /\ \E i \in 1..Len(scopeInput.segments) : scopeInput.segments[i] = DotMint

\* A step in which slot s sends a request to the list endpoint, a step that
\* fetchRWXPackages answers from its cache, and a cached payload younger
\* than CACHE_DURATION (its age counted from the start of the call that
\* fetched it).
PackagesFetchIssued(s) == reqs'[s].pc = "await_packages" /\ reqs[s].pc # "await_packages"
PackagesCacheHit ==
    /\ IsSome(response')
    /\ "fetch" \in DOMAIN Get(response').info
    /\ Get(response').info.fetch.hit
CachedPayloadYoung ==
    IsSome(packageCache.data) /\ clock - cacheOrigin.issuedAt < CACHE_DURATION

\* C6: a call of fetchRWXPackages made while the cached payload is younger
\* than 3,600,000 ms returns that payload without a network call, and a
\* call made when there is no payload or the window has elapsed sends a
\* request.
C6_ListCacheFreshness ==
    [][ /\ \A s \in Slots : PackagesFetchIssued(s) => ~CachedPayloadYoung
        /\ PackagesCacheHit =>
             /\ CachedPayloadYoung
             /\ Get(response').info.packages = packageCache.data
             /\ \A s \in Slots : ~PackagesFetchIssued(s)
             /\ packageCache' = packageCache ]_vars

\* A call answered from the cache one millisecond before the payload
\* expires.
C6_Witness ==
    /\ Responded("completion")
    /\ Get(response).info.path = "call"
    /\ Get(response).info.fetch.hit
    /\ Get(response).info.fetch.now - cacheOrigin.issuedAt = CACHE_DURATION - 1

FailureKinds == { "non2xx", "neterror", "badjson" }
PackagesFetchFailed(s) ==
    /\ reqs[s].pc = "await_packages"
    /\ reqs'[s].pc = "idle"
    /\ Get(response').info.fetch.outcome \in FailureKinds

\* C7: when the list fetch fails (network error, non-2xx, malformed JSON)
\* the caller of fetchRWXPackages goes on normally with the payload of the
\* last successful fetch (nothing if there was none), and the cache slot
\* keeps its data and timestamp.
C7_FetchFailureKeepsCache ==
    [][ \A s \in Slots : PackagesFetchFailed(s) =>
          /\ packageCache' = packageCache
          /\ Get(response').info.packages = cacheOrigin.payload
          /\ Get(response').kind = "completion"
          /\ Len(Get(response').result) =
               IF IsSome(cacheOrigin.payload)
                 THEN Cardinality(DOMAIN Get(cacheOrigin.payload)) ELSE 0 ]_vars

\* A failed fetch answered with the payload fetched earlier.
C7_Witness ==
    /\ Responded("completion")
    /\ Get(response).info.path = "call"
    /\ Get(response).info.fetch.outcome = "neterror"
    /\ IsSome(Get(response).info.packages)

\* A step in which slot s sends a request to the documentation endpoint, a
\* step that gives a fetchPackageDetails answer, and the pair asked for.
DetailsFetchIssued(s) == reqs'[s].pc = "await_details" /\ reqs[s].pc # "await_details"
DetailsAnswered == IsSome(response') /\ "details" \in DOMAIN Get(response').info
DetailsPair(details) == << details.packageInfo.packageName, details.packageInfo.version >>

\* C8: once a fetch for (name, version) has succeeded, a call of
\* fetchPackageDetails for that pair returns the stored details without a
\* network call, however much time has passed; a failed fetch stores nothing
\* and gives no details, and a call for a pair never fetched with success
\* sends a request.
C8_DetailsCache ==
    [][ /\ \A s \in Slots : DetailsFetchIssued(s) =>
             DetailsPair(reqs'[s].details) \notin DOMAIN cacheOrigin.details
        /\ DetailsAnswered /\ Get(response').info.details.hit =>
             /\ DetailsPair(Get(response').info.details) \in DOMAIN cacheOrigin.details
             /\ Get(response').info.packageDetails =
                  Some(cacheOrigin.details[DetailsPair(Get(response').info.details)].data)
             /\ \A s \in Slots : ~DetailsFetchIssued(s)
             /\ packageDetailsCache' = packageDetailsCache
        /\ DetailsAnswered /\ Get(response').info.details.outcome \in FailureKinds =>
             /\ packageDetailsCache' = packageDetailsCache
             /\ Get(response').info.packageDetails = None ]_vars

\* Details answered from the cache more than an hour after they were
\* fetched.
C8_Witness ==
    /\ IsSome(response)
    /\ "details" \in DOMAIN Get(response).info
    /\ Get(response).info.details.hit
    /\ clock - cacheOrigin.details[DetailsPair(Get(response).info.details)].fetchedAt
         > CACHE_DURATION

\* The file names of FileNames that end in .yml or .yaml and hold /.mint/ or
\* /.rwx/.
DumpableFiles == { FileMintYml, FileRwxYaml }

\* C11: the dump command sends rwx/dumpDebugData with {uri} only for an
\* active editor on a .yml/.yaml file under /.mint/ or /.rwx/; in every
\* other case it shows one error notification, sends nothing and opens
\* nothing; a rejected request, openTextDocument or showTextDocument is
\* caught and shown as one "Failed to dump debug data" notification.
C11_DumpCommand ==
    /\ ui.request # None => ui.step = "dump"
    /\ ui.step = "dump" =>
         IF host.activeEditor \in { Some(f) : f \in DumpableFiles }
           THEN /\ ui.request = Some([method |-> "rwx/dumpDebugData",
                                      uri |-> FileScheme \o Get(host.activeEditor)])
                /\ ui.errors = << >>
                /\ ~ui.opened
           ELSE /\ ui.request = None
                /\ Len(ui.errors) = 1
                /\ ~ui.opened
                /\ ext.dump = "idle"
    /\ ui.rejected =>
         /\ ~ui.thrown
         /\ ~ui.opened
         /\ Len(ui.errors) = 1
         /\ ui.errors[1][1] = "Failed to dump debug data: "
         /\ ext.dump = "idle"

\* The result could not be shown: the request was sent and answered, the
\* document opened, and showTextDocument failed.
C11_Witness ==
    /\ ui.step = "await_show"
    /\ ui.rejected
    /\ host.activeEditor = Some(FileRwxYaml)

\* C12: deactivate stops the client session if there is one and else does
\* nothing; after an activation that stopped at the missing server script
\* it completes without an error.
C12_DeactivateAlwaysCompletes ==
    ui.step = "deactivate" =>
        /\ ~ui.thrown
        /\ client \in { "undefined", "stopped" }

\* The flag rwx.showYamlExtensionPrompt reads true: the workspace says so,
\* or the workspace says nothing and the user settings do not say false.
PromptFlagTrue ==
    \/ rwxConfig.workspace = Some(TRUE)
    \/ rwxConfig.workspace = None /\ rwxConfig.global # Some(FALSE)

\* C13 as stated: an activation shows the prompt exactly when the YAML
\* extension is missing and the flag is true, and once the flag is false in
\* the user settings no activation shows it.
C13_PromptIffMissingAndFlag ==
    ui.step = "activate" =>
        /\ ui.prompt <=> (~host.yamlExtension /\ PromptFlagTrue)
        /\ rwxConfig.global = Some(FALSE) => ~ui.prompt

\* C13 amended: an activation shows the prompt exactly when the bundled
\* server script exists, the YAML extension is missing and the flag reads
\* true; nothing else shows it.  "Don't Show Again" writes false to the
\* user (global) settings and nothing else, and the user value stays false;
\* a later activation then shows the prompt only if the workspace settings
\* say true.  "Not Now" and dismissing the prompt change no setting.
C13_PromptRule ==
    [][ /\ ui'.prompt <=> /\ ext'.activations = ext.activations + 1
                          /\ host.serverModule
                          /\ ~host.yamlExtension
                          /\ PromptFlagTrue
        /\ ui'.step = "Don't Show Again" =>
             rwxConfig' = [rwxConfig EXCEPT !.global = Some(FALSE)]
        /\ ui'.step \in { "Not Now", "dismissed", "Install YAML Extension" } =>
             rwxConfig' = rwxConfig
        /\ rwxConfig.global = Some(FALSE) => rwxConfig'.global = Some(FALSE)
        /\ /\ ext'.activations = ext.activations + 1
           /\ rwxConfig.global = Some(FALSE)
           /\ rwxConfig.workspace # Some(TRUE)
           => ~ui'.prompt ]_vars

\* A second activation that shows no prompt, the YAML extension still
\* missing, the flag false in the user settings.
C13_Witness ==
    /\ ui.step = "activate"
    /\ ext.activations = 2
    /\ ~ui.prompt
    /\ host.serverModule
    /\ ~host.yamlExtension
    /\ rwxConfig = [global |-> Some(FALSE), workspace |-> None]

\* "use:" begins at index i of s; the index of the "[" that opens a use
\* array in s: a "use:", blanks, then "[".
UseAt(s, i) == i + 4 <= Len(s) /\ SubSeq(s, i + 1, i + 4) = << "u", "s", "e", ":" >>
HasChar(s, ch) == \E i \in 1..Len(s) : s[i] = ch
UseArrayOpenings(s) ==
    { k \in 0..(Len(s) - 1) :
        /\ s[k + 1] = "["
        /\ \E i \in 0..k : /\ UseAt(s, i)
                           /\ \A j \in (i + 5)..k : s[j] = " " }

DefinitionAt(l) ==
    /\ Responded("definition")
    /\ Get(response).uri \in DOMAIN documents
    /\ Get(response).info.position.line = l

\* The column where the path text of an embedded run call begins: the one
\* after "}}/".
PathTextStart(line) ==
    CHOOSE a \in 3..Len(line) : SubSeq(line, a - 2, a) = << "}", "}", "/" >>

\* C15: with the cursor anywhere in the path text of a line
\* `call: ${{ run.mint-dir }}/<path>`, definition gives one link whose
\* origin range is the span of the path text and whose target is (0,0) of
\* <path> under the nearest .mint/.rwx directory when that file exists, and
\* nothing when it does not.
C15_EmbeddedRunNavigation ==
    \A l \in { 5, 6, 7 } :
        LET line == NavText[l + 1]
            c == Get(response).info.position.character
            span == Range(Position(l, PathTextStart(line)), Position(l, Len(line)))
            path == SubSeq(line, PathTextStart(line) + 1, Len(line))
        IN  DefinitionAt(l) /\ c >= PathTextStart(line) /\ c <= Len(line) =>
              Get(response).result =
                IF l = 7 THEN None
                ELSE Some(<< [originSelectionRange |-> span,
                              targetUri |-> << "f", "i", "l", "e", ":", "/", "/", "/", "r", "/", ".", "m", "i", "n", "t", "/" >> \o path,
                              targetRange |-> Range(Position(0, 0), Position(0, 0)),
                              targetSelectionRange |-> Range(Position(0, 0), Position(0, 0))] >>)

\* The column where the value of a key line begins: the value is the last
\* thing on the line, a closing quote aside.
KeyValueStart(line, w) ==
    Len(line) - Len(w) - (IF IsQuote(line[Len(line)]) THEN 1 ELSE 0)

\* C16: for a word w under the cursor in use-context, definition gives a
\* link to the first line `key: w` from the top (list dash and quotes
\* optional), its target range the span of w as the value of that key, and
\* nothing when there is no such line.
C16_TaskDefinitionNavigation ==
    \A l \in { 1, 3 } :
        LET position == Get(response).info.position
            wordInfo == getWordRangeAtPosition(NavText, position)
            w == Get(wordInfo).word
            keyLines == { i \in 1..Len(NavText) : KeyLineMatches(NavText[i], w) }
            first == CHOOSE i \in keyLines : \A j \in keyLines : i <= j
            target == Range(Position(first - 1, KeyValueStart(NavText[first], w)),
                            Position(first - 1, KeyValueStart(NavText[first], w) + Len(w)))
        IN  DefinitionAt(l) /\ isInUseContext(NavText, position) /\ IsSome(wordInfo) =>
              Get(response).result =
                IF keyLines = { } THEN None
                ELSE Some(<< [originSelectionRange |-> Get(wordInfo).range,
                              targetUri |-> Get(response).uri,
                              targetRange |-> target,
                              targetSelectionRange |-> target] >>)

\* A completion response on the `with:` path, the registry having answered
\* with (or the cache holding) the documentation of the package version.
WithCompletionAnswered ==
    /\ Responded("completion")
    /\ Get(response).info.path = "with"
    /\ IsSome(Get(response).info.packageDetails)

\* C17: a completion in with-context whose call has registry details
\* returns one item per parameter of that package version, in registry
\* order, each with insert text `<name>: ` and detail `required` if the
\* parameter is required, else `default: "<default>"` if it has a non-empty
\* default, else the empty string.
C17_WithCompletion ==
    WithCompletionAnswered =>
        LET r == Get(response)
            packageDetails == Get(r.info.packageDetails)
            called == r.info.details.packageInfo
            parameters == IF IsSome(packageDetails.parameters)
                            THEN Get(packageDetails.parameters) ELSE << >>
        IN  /\ packageDetails.name = called.packageName
            /\ packageDetails.version = called.version
            /\ Len(r.result) = Len(parameters)
            /\ \A i \in 1..Len(parameters) :
                 /\ r.result[i].label = parameters[i].name
                 /\ r.result[i].insertText = parameters[i].name \o << ":", " " >>
                 /\ r.result[i].detail =
                      IF parameters[i].required = Some(TRUE) THEN << "required" >>
                      ELSE IF parameters[i].default # << >>
                        THEN << "default: \"", parameters[i].default, "\"" >>
                      ELSE << >>

C17_Witness ==
    /\ WithCompletionAnswered
    /\ UriIn \in DOMAIN documents
    /\ isInWithContext(documents[UriIn], Get(response).info.position)
    /\ ~Get(response).info.details.hit
    /\ Get(Get(response).info.packageDetails).parameters = Some(<< ParamC, ParamN, ParamB >>)
    /\ Len(Get(response).result) = 3
    /\ Get(response).result[1].detail = << "default: \"", << "t" >>, "\"" >>
    /\ Get(response).result[2].detail = << "required" >>
    /\ Get(response).result[3].detail = << >>

\* C18: the diagnostics of one report come from one snapshot of the
\* document: the version warnings returned with the parser's diagnostics are
\* those of the text the parser was given, whatever change notification was
\* processed while the computation was suspended.
C18_SingleSnapshot ==
    Validated =>
        LET info == Get(response).info
        IN  info.versionDiagnostics = checkPackageVersionsWith(info.packages, info.text)

\* Fetches in flight: the slots awaiting the list endpoint, and those
\* awaiting the documentation of a key.
ListInFlight == { t \in Slots : reqs[t].pc = "await_packages" }
DetailsInFlight(key) ==
    { t \in Slots : reqs[t].pc = "await_details" /\ reqs[t].details.key = key }
ListSlotStale ==
    ~IsSome(packageCache.data) \/ clock - packageCache.timestamp >= CACHE_DURATION
DetailsKeys == { DetailsCacheKey(PackageP, v) : v \in { << "1" >>, << "2" >> } }

\* C19: no request shares another's fetch in flight.  A call for the list
\* made while the slot is empty or expired and another call's fetch is in
\* flight is not answered from the slot: every call that starts then sends
\* a request of its own, and the fetch in flight stays as it is.  The same
\* for the documentation of a key that is not cached.
C19_NoDeduplication ==
    [][ /\ ListInFlight # { } /\ ListSlotStale =>
             /\ ~PackagesCacheHit
             /\ \A s \in Slots : PackagesFetchIssued(s) =>
                  /\ ~reqs'[s].fetch.hit
                  /\ \A t \in ListInFlight : reqs'[t] = reqs[t]
        /\ \A key \in DetailsKeys :
             DetailsInFlight(key) # { } /\ key \notin DOMAIN packageDetailsCache =>
                /\ ~(DetailsAnswered /\ Get(response').info.details.hit
                       /\ Get(response').info.details.key = key)
                /\ \A s \in Slots :
                     DetailsFetchIssued(s) /\ reqs'[s].details.key = key =>
                       /\ ~reqs'[s].details.hit
                       /\ \A t \in DetailsInFlight(key) : reqs'[t] = reqs[t] ]_vars

\* Two fetches of the documentation of one key in flight, the key not
\* cached.
C19_Witness ==
    \E key \in DetailsKeys :
        /\ key \notin DOMAIN packageDetailsCache
        /\ Cardinality(DetailsInFlight(key)) >= 2

\* A step in which the list endpoint's answer reaches the call in slot s.
PackagesFetchCompleted(s) == reqs[s].pc = "await_packages" /\ reqs'[s].pc = "idle"

\* C20: the package-list slot only advances: its timestamp never decreases,
\* and a fetch issued before the one whose payload the slot holds, completing
\* after it, leaves the slot's payload and timestamp as they are.
C20_SlotOnlyAdvances ==
    [][ /\ packageCache'.timestamp >= packageCache.timestamp
        /\ \A s \in Slots :
             PackagesFetchCompleted(s) /\ IsSome(packageCache.data)
               /\ reqs[s].fetch.now < packageCache.timestamp =>
                 packageCache' = packageCache ]_vars

\* A step in which a diagnostics handler for uri starts in slot s and
\* resolves its settings.
ResolutionStarts(s, uri) ==
    /\ reqs[s].pc = "idle"
    /\ reqs'[s].pc # "idle"
    /\ reqs'[s].kind = "diag"
    /\ reqs'[s].uri = uri

\* C21: in scoped mode a configuration change discards the whole settings
\* cache (no step discards the lookup of a document that stays open and
\* keeps another); a resolution for a URI without a cached lookup sends a
\* new configuration request, whose lookup is none of those pending before;
\* a resolution for a URI with a cached lookup takes that lookup, pending or
\* settled, and sends nothing; a settled lookup never changes.
C21_SettingsCache ==
    [][ hasConfigurationCapability =>
          /\ (\E u \in DOMAIN documentSettings :
                u \notin DOMAIN documentSettings' /\ u \in DOMAIN documents') =>
               documentSettings' = EmptyMap
          /\ \A u \in DOMAIN documentSettings \cap DOMAIN documentSettings' :
               documentSettings[u].state # "pending" =>
                 documentSettings'[u] = documentSettings[u]
          /\ \A s \in Slots : \A uri \in SettingsUris :
               ResolutionStarts(s, uri) =>
                 IF uri \in DOMAIN documentSettings
                   THEN /\ documentSettings' = documentSettings
                        /\ IF documentSettings[uri].state = "pending"
                             THEN /\ reqs'[s].pc = "await_settings"
                                  /\ reqs'[s].promise = documentSettings[uri].id
                             ELSE /\ reqs'[s].pc = "await_parse"
                                  /\ reqs'[s].settings = documentSettings[uri].settings
                   ELSE /\ uri \in DOMAIN documentSettings'
                        /\ documentSettings'[uri].state = "pending"
                        /\ documentSettings'[uri].id \notin PendingPromises
                        /\ reqs'[s].pc = "await_settings"
                        /\ reqs'[s].promise = documentSettings'[uri].id
                        /\ \A u \in DOMAIN documentSettings :
                             documentSettings'[u] = documentSettings[u] ]_vars

\* Two handlers for one open document await two lookups: the first started
\* before a configuration change and still pending, the second after it and
\* cached.
C21_Witness ==
    /\ hasConfigurationCapability
    /\ UriIn \in DOMAIN documentSettings
    /\ documentSettings[UriIn].state = "pending"
    /\ reqs[1].pc = "await_settings" /\ reqs[1].uri = UriIn /\ reqs[1].doc.live
    /\ reqs[2].pc = "await_settings" /\ reqs[2].uri = UriIn /\ reqs[2].doc.live
    /\ reqs[1].promise # reqs[2].promise
    /\ reqs[2].promise = documentSettings[UriIn].id

\* C22: every key of the settings cache is the URI of an open document.  An
\* entry is created only by a handler that starts for an open document;
\* closing a document removes its entry and leaves the other entries and
\* both registry caches as they are; no later step of a handler that was
\* in flight at the close creates the entry again.
C22_SettingsOnlyForOpenDocuments ==
    [][ /\ DOMAIN documentSettings' \subseteq DOMAIN documents'
        /\ \A u \in DOMAIN documentSettings' \ DOMAIN documentSettings :
             /\ u \in DOMAIN documents
             /\ \E s \in Slots : ResolutionStarts(s, u) /\ reqs'[s].doc.live
        /\ \A u \in DOMAIN documents \ DOMAIN documents' :
             /\ documentSettings' = Without(documentSettings, u)
             /\ packageCache' = packageCache
             /\ packageDetailsCache' = packageDetailsCache ]_vars

\* A document closed while its diagnostics were being computed: its entry
\* is gone, the entry of the other open document is kept.
C22_Witness ==
    /\ \E s \in Slots : /\ reqs[s].pc # "idle"
                        /\ reqs[s].uri = UriIn
                        /\ ~reqs[s].doc.live
    /\ UriIn \in DOMAIN documents
    /\ UriIn \notin DOMAIN documentSettings
    /\ UriRwx \in DOMAIN documentSettings

\* C23: without scoped configuration the process-wide settings object
\* always has an integer maxNumberOfProblems: the built-in default, or the
\* value of a payload whose rwxLanguageServer section carries the field.
C23_GlobalSettingsInteger ==
    ~hasConfigurationCapability =>
        /\ IsSome(globalSettings.maxNumberOfProblems)
        /\ globalSettings.maxNumberOfProblems \in
             { Some(DefaultMaxNumberOfProblems) }
             \cup { c.maxNumberOfProblems :
                      c \in { d \in SettingsChanges :
                                d.section /\ IsSome(d.maxNumberOfProblems) } }

\* The task of line l: the list item it is in, from the last line at or
\* above l that opens an item at column 0 to l.
OwnTaskStart(lines, l) ==
    LET opens == { i \in 0..l : lines[i + 1] # << >> /\ lines[i + 1][1] = "-" }
    IN  IF opens = { } THEN 0 ELSE CHOOSE i \in opens : \A j \in opens : j <= i

\* The package a suspended or answered with-context completion took from
\* the document.
CallTaken ==
    IF reqs[1].pc = "await_details" THEN Some(reqs[1].details.packageInfo)
    ELSE IF Responded("completion") /\ Get(response).info.path = "with"
      THEN Some(Get(response).info.details.packageInfo)
    ELSE None

\* C24: the package of a with-context completion is the call of the task
\* that holds the cursor line: a line of that task above the cursor reads
\* `call: <name> <version>` with that name and version; the call of an
\* earlier task is never taken.
C24_CallOfOwnTask ==
    UriIn \in DOMAIN documents /\ IsSome(CallTaken) =>
        LET lines == documents[UriIn]
            l == Len(lines) - 1
        IN  \E i \in OwnTaskStart(lines, l)..(l - 1) :
                extractPackageAndVersionFromCallLine(lines[i + 1]) = CallTaken

\* The kinds of the items each completion context gives.
ItemKinds(result) == { result[i].kind : i \in 1..Len(result) }

\* The text before the cursor holds `call:` and, after it, the `}}/` that
\* closes the mint-dir expression.
AfterMintDirSlash(lines, position) ==
    LET beforeCursor == Substring(LineOrEmpty(lines, position.line), 0, position.character)
    IN  \E a \in 0..Len(beforeCursor) :
            /\ Includes(Substring(beforeCursor, 0, a), CallKey)
            /\ Includes(Substring(beforeCursor, a, Len(beforeCursor)), << "}", "}", "/" >>)

\* C25: a completion on an open document in scope is answered by one
\* context, the first that holds in the order use, embedded-run path, call,
\* with: task references, file-system entries, catalog packages or
\* parameters, never a mixture; a cursor after `call: ${{ run.mint-dir }}/`
\* gets file-system entries and never the catalog; when no context holds
\* the result is the empty list.
C25_OneContextInPriority ==
    /\ Responded("completion")
    /\ Get(response).uri \in DOMAIN documents
    /\ isRwxRunFile(Get(response).uri)
    /\ "position" \in DOMAIN Get(response).info
    => LET r == Get(response)
           lines == documents[r.uri]
           position == r.info.position
       IN  /\ IF isInUseContext(lines, position)
                THEN /\ r.info.path \in { "use", "useRaised" }
                     /\ ItemKinds(r.result) \subseteq { "Reference" }
              ELSE IF isInEmbeddedRunCallContext(lines, position).isInContext
                THEN /\ r.info.path = "embedded"
                     /\ ItemKinds(r.result) \subseteq { "File", "Folder" }
              ELSE IF isInCallContext(lines, position)
                THEN /\ r.info.path = "call"
                     /\ ItemKinds(r.result) \subseteq { "Module" }
              ELSE IF isInWithContext(lines, position)
                THEN /\ r.info.path \in { "with", "withNoCall" }
                     /\ ItemKinds(r.result) \subseteq { "Property" }
              ELSE /\ r.info.path = "none"
                   /\ r.result = << >>
           /\ AfterMintDirSlash(lines, position) =>
                /\ r.info.path = "embedded"
                /\ "Module" \notin ItemKinds(r.result)

\* The cursor right after `call: ${{ run.mint-dir }}/`, where the call rule
\* holds as well: the entries of the .mint directory are listed.
C25_Witness ==
    /\ Responded("completion")
    /\ Get(response).uri = UriIn
    /\ UriIn \in DOMAIN documents
    /\ Get(response).info.path = "embedded"
    /\ isInCallContext(documents[UriIn], Get(response).info.position)
    /\ ItemKinds(Get(response).result) = { "File", "Folder" }

\* A call line as the version check is described: indentation, an optional
\* `-` and blanks, `call:`, and two tokens separated by blanks.  The
\* columns of the second token, the version.
CallKeyColumn(line) ==
    LET i0 == SkipSpaces(line, 0)
    IN  IF StartsWithAt(line, i0, << "-" >>) THEN SkipSpaces(line, i0 + 1) ELSE i0
IsVersionedCall(line) ==
    /\ StartsWithAt(line, CallKeyColumn(line), CallKey)
    /\ IsSome(extractPackageAndVersionFromCallLine(
                  Substring(line, CallKeyColumn(line), Len(line))))
VersionTokenStart(line) ==
    LET n0 == SkipSpaces(line, CallKeyColumn(line) + Len(CallKey))
    IN  SkipSpaces(line, SkipNonSpaces(line, n0))
VersionTokenEnd(line) == SkipNonSpaces(line, VersionTokenStart(line))

\* A diagnostics response with the version warnings of the text at hand.
VersionChecked ==
    /\ Validated
    /\ IsSome(Get(response).info.packages)
    /\ Get(response).uri \in DOMAIN documents
    /\ documents[Get(response).uri] = Get(response).info.textAtEnd

\* C26: the range of an outdated-version warning and its data (line,
\* versionStart, versionEnd) delimit the version token of the call line,
\* the second token after `call:`, whatever else the line holds.
C26_VersionTokenRange ==
    VersionChecked =>
        LET info == Get(response).info
        IN  \A k \in 1..Len(info.versionDiagnostics) :
              LET d == info.versionDiagnostics[k]
                  l == d.range.start.line
                  line == info.textAtEnd[l + 1]
              IN  /\ d.range = Range(Position(l, VersionTokenStart(line)),
                                     Position(l, VersionTokenEnd(line)))
                  /\ Get(d.data).line = l
                  /\ Get(d.data).versionStart = VersionTokenStart(line)
                  /\ Get(d.data).versionEnd = VersionTokenEnd(line)

\* C27: every line [indentation][-]`call: <package> <version>` is checked
\* against the catalog: when the catalog knows the package under another
\* version, the report holds a warning on that line, be the call indented
\* or the first key of a list item.
C27_EveryCallLineChecked ==
    VersionChecked =>
        LET info == Get(response).info
            latest == Get(info.packages)
        IN  \A l \in 0..(Len(info.textAtEnd) - 1) :
              LET line == info.textAtEnd[l + 1]
                  call == Get(extractPackageAndVersionFromCallLine(
                                  Substring(line, CallKeyColumn(line), Len(line))))
              IN  /\ IsVersionedCall(line)
                  /\ call.packageName \in DOMAIN latest
                  /\ latest[call.packageName].version # call.version
                  => \E k \in 1..Len(info.versionDiagnostics) :
                        info.versionDiagnostics[k].range.start.line = l

\* The diagnostics of a request context the code-action handler acts on,
\* in the order of the context.
RECURSIVE FixableOf(_)
FixableOf(context) ==
    IF context = << >> THEN << >>
    ELSE (IF /\ Head(context).code = Some("outdated-version")
             /\ Head(context).source = "rwx"
             /\ IsSome(Head(context).data)
            THEN << Head(context) >> ELSE << >>)
         \o FixableOf(Tail(context))

\* C28: the code-action handler returns one quick fix for each diagnostic
\* of the context with code outdated-version, source rwx and data, in the
\* order of the context, and nothing for any other diagnostic; the edit of
\* each is one replacement, in the requesting document, of the range
\* (data.line, data.versionStart)-(data.line, data.versionEnd) by
\* data.latestVersion.
C28_QuickFixPerWarning ==
    Responded("codeAction") =>
        LET r == Get(response)
            fixable == FixableOf(r.info.context)
        IN  /\ Len(r.result) = Len(fixable)
            /\ \A i \in 1..Len(fixable) :
                 LET data == Get(fixable[i].data)
                 IN  /\ r.result[i].kind = "quickfix"
                     /\ r.result[i].diagnostics = << fixable[i] >>
                     /\ r.result[i].edit.uri = r.uri
                     /\ r.result[i].edit.edits =
                          << [range |-> [start |-> [line |-> data.line,
                                                    character |-> data.versionStart],
                                         end |-> [line |-> data.line,
                                                  character |-> data.versionEnd]],
                              newText |-> data.latestVersion] >>

\* Two fixable warnings around one that is not: two quick fixes, the second
\* on the range its data names.
C28_Witness ==
    /\ Responded("codeAction")
    /\ Len(Get(response).info.context) = 3
    /\ Get(response).info.context[1] = WarningRwx
    /\ Get(response).info.context[2].source = "mint"
    /\ Get(response).info.context[3] = WarningMoved
    /\ Len(Get(response).result) = 2
    /\ Get(response).result[2].edit.edits[1].range.start =
         [line |-> 3, character |-> 4]

\* The path p is the directory dir or lies beneath it.
InsideDir(p, dir) == p = dir \/ StartsWith(p, dir \o << Sep >>)

\* C29: for every path text after `${{ run.mint-dir }}/`, `..` segments
\* included, the file that embedded-run navigation tests and the directory
\* that embedded-run path completion lists lie inside the nearest ancestor
\* .mint/.rwx directory of the document, and no location link has a target
\* outside that directory.
C29_StaysInsideMintDir ==
    IsSome(response) /\ Get(response).uri \in DOMAIN documents =>
        LET r == Get(response)
            lines == documents[r.uri]
            mintDir == findMintDirectory(StripFileScheme(r.uri))
            embeddedRunInfo == getEmbeddedRunFilePathAtPosition(lines, r.info.position)
        IN  /\ r.kind = "definition" /\ IsSome(mintDir) /\ IsSome(embeddedRunInfo) =>
                /\ InsideDir(PathJoin(Get(mintDir), Get(embeddedRunInfo).filePath),
                             Get(mintDir))
                /\ IsSome(r.result) =>
                     \A i \in 1..Len(Get(r.result)) :
                         InsideDir(StripFileScheme(Get(r.result)[i].targetUri), Get(mintDir))
            /\ r.kind = "completion" /\ r.info.path = "embedded" /\ IsSome(mintDir) =>
                InsideDir(PathJoin(Get(mintDir), r.info.relativePath), Get(mintDir))

\* The innermost frame of a parser error, when it has one.
InnermostFrame(error) ==
    IF Len(error.stackTrace) > 0 THEN Some(error.stackTrace[Len(error.stackTrace)]) ELSE None

\* The frame carries an end position: an end line and an end column.
CarriesEnd(frame) ==
    IsSome(frame) /\ IsSome(Get(frame).endLine) /\ IsSome(Get(frame).endColumn)

\* C30: the diagnostic of a parser error at 1-based (line, column) starts at
\* (line - 1, column - 1); it ends at (endLine - 1, endColumn - 1) of the
\* innermost (last) stack frame when that frame carries an end position, and
\* otherwise on the start line at start character + 10; line and character
\* of the end are taken from the same alternative.
C30_ParserErrorSpan ==
    Validated =>
        LET info == Get(response).info
        IN  \A k \in 1..Len(info.errors) :
              LET error == info.errors[k]
                  d == info.parserDiagnostics[k]
                  frame == InnermostFrame(error)
                  start == Position(Get(error.line) - 1, Get(error.column) - 1)
              IN  /\ d.range.start = start
                  /\ d.range.end =
                       IF CarriesEnd(frame)
                         THEN Position(Get(Get(frame).endLine) - 1,
                                       Get(Get(frame).endColumn) - 1)
                         ELSE Position(start.line, start.character + 10)

====
